---- MODULE Spec2Model ----
(***************************************************************************)
(* A model of the IPA transliterator of tries--with-transliterator.js:     *)
(* the Trie (CharNode, addWord, findCharNode), the two steppers            *)
(* (TrieWordStepper, TrieOrthographyStepper) and the rule engine           *)
(* (Rule, RuleProcessor).                                                  *)
(*                                                                         *)
(* Strings are sequences of one-character strings.  IPA characters are     *)
(* written in ASCII: "@" for schwa, "'" for the stress mark, "U" for the   *)
(* near-close back vowel, "O" for the open-mid back vowel; these are       *)
(* phonetic data only and never occur in an input text.                    *)
(* Cursors are 0-based as in the source: the character of string s at      *)
(* JavaScript index i is CharAt(s, i).                                     *)
(***************************************************************************)
EXTENDS Integers, Sequences, FiniteSets, TLC

VARIABLES
  wordStepper,   \* the TrieWordStepper instance (its fields)
  orthStepper,   \* the TrieOrthographyStepper instance (its fields)
  files,         \* the resources loadFile reads: dict, map, pre, post per language
  reads,         \* history: number of dictionary and map files read so far
  inserted,      \* history: <<language, word, option>> of every addWord on wordStepper
  lastOp,        \* history: the last call made, its arguments and its outcome
  phase,         \* where the caller is: "idle", "word", "orth", "done"
  input,         \* the argument of the pending translateText call
  ruleState      \* RuleProcessor.process in progress: rules, word, index, accumulator

vars ==
  <<wordStepper, orthStepper, files, reads, inserted, lastOp, phase, input, ruleState>>

(***************************************************************************)
(* Values of JavaScript that are not strings or numbers.                   *)
(***************************************************************************)
\* null / undefined where a string (a sequence of characters) is expected
Null ==
  <<"<null>">>

Undefined ==
  <<"<undefined>">>

\* the text "undefined" that JavaScript produces when undefined is made a string
UndefinedText ==
  <<"u", "n", "d", "e", "f", "i", "n", "e", "d">>

\* _currentLanguageCode = null
NoLanguage ==
  "<null>"

\* _lastResultCursor = null
NoCursor ==
  -1

\* _lastAddedCursor is never declared: undefined until run() first assigns it
UndefinedCursor ==
  -2

Range(s) ==
  {s[i] : i \in DOMAIN s}

\* s[i] of JavaScript: undefined outside the string
CharAt(s, i) ==
  IF i >= 0 /\ i < Len(s) THEN s[i + 1] ELSE "<undefined>"

\* Array.prototype.join('') over an array of strings
RECURSIVE Join(_)
Join(parts) ==
  IF parts = <<>> THEN <<>> ELSE Head(parts) \o Join(Tail(parts))

(***************************************************************************)
(* Characters.                                                             *)
(***************************************************************************)
UpperCase ==
  {"H", "A", "C"}

LetterChars ==
  {"a", "b", "c", "d", "e", "f", "g", "h", "i", "l", "m", "n", "o", "r", "s", "t", "w", "y"}
    \cup UpperCase

\* String.prototype.toLowerCase, character by character
LowerChar(c) ==
  CASE c = "H" -> "h"
    [] c = "A" -> "a"
    [] c = "C" -> "c"
    [] OTHER -> c

toLowerCase(s) ==
  [i \in DOMAIN s |-> LowerChar(s[i])]

\* /\p{L}/u.test(str): str is made a string first, and "undefined" holds letters
isLetter(c) ==
  c \in LetterChars \/ c = "<undefined>"

\* String.prototype.trim: white space is removed at both ends
RECURSIVE TrimStart(_)
TrimStart(s) ==
  IF s # <<>> /\ Head(s) = " " THEN TrimStart(Tail(s)) ELSE s

RECURSIVE TrimEnd(_)
TrimEnd(s) ==
  IF s # <<>> /\ s[Len(s)] = " " THEN TrimEnd(SubSeq(s, 1, Len(s) - 1)) ELSE s

trim(s) ==
  TrimEnd(TrimStart(s))

(***************************************************************************)
(* CharNode and Trie.  A dictionary (a root level with everything below    *)
(* it) is a function from the path of a node, the characters from the root *)
(* to it, to the node; the level below a node is named by the node's path, *)
(* the root level by the empty path.                                       *)
(***************************************************************************)
\* a node with the fault of being born as the end of a word
CharNodeAsWord(char) ==
  [char |-> char, phonetics |-> <<>>, word |-> <<char>>]

\* new CharNode(char)
CharNode(char) ==
  [char |-> char, phonetics |-> <<>>, word |-> Null]

\* add with the fault of adding an element that is already there
addPhoneticAgain(phonetics, phonetic) ==
  Append(phonetics, phonetic)

\* Set.prototype.add on a set that keeps insertion order
addPhonetic(phonetics, phonetic) ==
  IF phonetic \in Range(phonetics) THEN phonetics ELSE Append(phonetics, phonetic)

\* phonetic.split(', ')
RECURSIVE SplitFrom(_, _, _)
SplitFrom(s, i, part) ==
  IF i > Len(s) THEN <<part>>
  ELSE IF i < Len(s) /\ s[i] = "," /\ s[i + 1] = " "
       THEN <<part>> \o SplitFrom(s, i + 2, <<>>)
       ELSE SplitFrom(s, i + 1, Append(part, s[i]))

splitCommaSpace(s) ==
  SplitFrom(s, 1, <<>>)

\* the key under which a level holds the node of a character; charsArr.shift() of
\* an empty array is undefined, which as a key is the text "undefined"
KeyPath(word) ==
  IF word = <<>> THEN <<"undefined">> ELSE word

\* the do-while loop of addWord: walk the word, creating the nodes that are missing
RECURSIVE WalkCreate(_, _, _)
WalkCreate(dict, path, i) ==
  IF i > Len(path) THEN dict
  ELSE LET p == SubSeq(path, 1, i)
       IN  WalkCreate(IF p \in DOMAIN dict THEN dict ELSE dict @@ (p :> CharNode(path[i])),
                      path, i + 1)

RECURSIVE AddPhonetics(_, _)
AddPhonetics(phonetics, options) ==
  IF options = <<>> THEN phonetics
  ELSE AddPhonetics(addPhonetic(phonetics, Head(options)), Tail(options))

\* addWord with the fault of replacing the phonetics of the terminal node
addWordOverwriting(dict, word, phonetic) ==
  LET path == KeyPath(word)
      walked == WalkCreate(dict, path, 1)
  IN  [walked EXCEPT ![path] =
         [@ EXCEPT !.phonetics = splitCommaSpace(phonetic), !.word = word]]

\* Trie.addWord on a root level that exists
addWord(dict, word, phonetic) ==
  LET path == KeyPath(word)
      walked == WalkCreate(dict, path, 1)
  IN  [walked EXCEPT ![path] =
         [@ EXCEPT !.phonetics = AddPhonetics(@, splitCommaSpace(phonetic)),
                   !.word = word]]

\* Trie.findCharNode on a root level that exists: {} is null, {n} is the node n
RECURSIVE FindWalk(_, _, _)
FindWalk(dict, path, i) ==
  LET p == SubSeq(path, 1, i)
  IN  IF p \notin DOMAIN dict THEN {}
      ELSE IF i >= Len(path) THEN {dict[p]}
      ELSE FindWalk(dict, path, i + 1)

findCharNode(dict, word) ==
  FindWalk(dict, KeyPath(word), 1)

\* Trie.findPhonetics: {} is null, {p} is the set of phonetics p
findPhonetics(dict, word) ==
  {n.phonetics : n \in findCharNode(dict, word)}

\* Trie.hasDictionary
hasDictionary(stepper, dictionary) ==
  dictionary \in DOMAIN stepper.loadedDictionaries

\* Trie.firstCharsLevel is defined
HasFirstCharsLevel(stepper) ==
  stepper.currentLanguageCode \in DOMAIN stepper.loadedDictionaries

\* Trie.firstCharsLevel, where defined
firstCharsLevel(stepper) ==
  stepper.loadedDictionaries[stepper.currentLanguageCode]

(***************************************************************************)
(* The stepper objects.  A level is named by the path of the node it hangs *)
(* under (the empty path for the root level); a node by its path.          *)
(***************************************************************************)
\* new TrieWordStepper()
FreshWordStepper ==
  [currentLanguageCode |-> NoLanguage,
   loadedDictionaries |-> <<>>,
   currentLevel |-> Null,
   lastNodeWithResult |-> Null,
   foundChars |-> FALSE,
   lastResultCursor |-> NoCursor,
   currentNode |-> Null,
   cursor |-> 0,
   result |-> <<>>,
   text |-> Null,
   lastAddedCursor |-> UndefinedCursor,
   orthographyStepper |-> FALSE,
   currentWord |-> <<>>]

\* new TrieOrthographyStepper(); a registered rule processor is its list of rules
FreshOrthStepper ==
  [currentLanguageCode |-> NoLanguage,
   loadedDictionaries |-> <<>>,
   currentLevel |-> Null,
   lastNodeWithResult |-> Null,
   foundChars |-> FALSE,
   lastResultCursor |-> NoCursor,
   currentNode |-> Null,
   cursor |-> 0,
   result |-> <<>>,
   text |-> Null,
   lastAddedCursor |-> UndefinedCursor,
   rulePreprocessors |-> <<>>,
   rulePostprocessors |-> <<>>]

NoOp ==
  [op |-> "none", lang |-> NoLanguage, word |-> <<>>, threw |-> FALSE, found |-> {},
   raw |-> <<>>, ruleReads |-> 0]

NoRuleState ==
  [lines |-> <<>>, charGroups |-> <<>>, rules |-> <<>>, word |-> <<>>, index |-> 0,
   acc |-> <<>>]

(***************************************************************************)
(* Resources.  A dictionary or map file is null (missing, unreadable or    *)
(* empty: loadFile returns null) or its lines, each line the two fields    *)
(* that line.split(/\t/) gives; a field that is missing is the empty       *)
(* string, which is as falsy as undefined.                                 *)
(***************************************************************************)
Languages ==
  {"en", "de"}

Line(word, phonetic) ==
  [word |-> word, phonetic |-> phonetic]

\* the lines of a file that are not skipped, lower-cased, added in order
RECURSIVE AddLines(_, _)
AddLines(dict, lines) ==
  IF lines = <<>> THEN dict
  ELSE LET l == Head(lines)
       IN  AddLines(IF l.word # <<>> /\ l.phonetic # <<>>
                      THEN addWord(dict, toLowerCase(l.word), l.phonetic)
                      ELSE dict,
                    Tail(lines))

\* the <<language, word, option>> triples that AddLines inserts
InsertedBy(lang, lines) ==
  UNION {{<<lang, toLowerCase(lines[i].word), o>> :
            o \in Range(splitCommaSpace(lines[i].phonetic))} :
         i \in {j \in DOMAIN lines : lines[j].word # <<>> /\ lines[j].phonetic # <<>>}}

\* loadFile of a path that cannot be read, or of an empty file: null
MissingFile ==
  [exists |-> FALSE, lines |-> <<>>]

File(lines) ==
  [exists |-> TRUE, lines |-> lines]

(***************************************************************************)
(* loadDictionary of the two steppers, as the stepper it leaves behind.    *)
(***************************************************************************)
\* TrieWordStepper.loadDictionary: response.split raises on a null response,
\* after the empty root level has been registered
WordLoadDictionaryThrows(stepper, dictionary, file) ==
  ~hasDictionary(stepper, dictionary) /\ ~file.exists

\* loadDictionary with the fault of reading the file again for a loaded language
WordLoadDictionaryUncached(stepper, dictionary, file) ==
  [stepper EXCEPT
     !.currentLanguageCode = dictionary,
     !.loadedDictionaries =
        [l \in DOMAIN stepper.loadedDictionaries \cup {dictionary} |->
           IF l = dictionary
             THEN IF file.exists THEN AddLines(<<>>, file.lines) ELSE <<>>
             ELSE stepper.loadedDictionaries[l]]]

WordLoadDictionary(stepper, dictionary, file) ==
  IF hasDictionary(stepper, dictionary)
    THEN [stepper EXCEPT !.currentLanguageCode = dictionary]
    ELSE [stepper EXCEPT
            !.currentLanguageCode = dictionary,
            !.loadedDictionaries =
               @ @@ (dictionary :> IF file.exists THEN AddLines(<<>>, file.lines) ELSE <<>>)]

\* TrieOrthographyStepper.loadDictionary: a null response gives no lines
OrthLoadDictionary(stepper, dictionary, file) ==
  IF hasDictionary(stepper, dictionary)
    THEN [stepper EXCEPT !.currentLanguageCode = dictionary]
    ELSE [stepper EXCEPT
            !.currentLanguageCode = dictionary,
            !.loadedDictionaries =
               @ @@ (dictionary :> IF file.exists THEN AddLines(<<>>, file.lines) ELSE <<>>)]

\* the loadFile calls a loadDictionary makes
LoadReads(stepper, dictionary) ==
  IF hasDictionary(stepper, dictionary) THEN 0 ELSE 1

(***************************************************************************)
(* Rule and RuleProcessor.  A rule line is given by the four fields that   *)
(* the three split calls of the constructor produce; a context without a   *)
(* cursor marker has an undefined suffix.  A character-group key such as   *)
(* ::vowel:: is one token.  The patterns are those built from literal      *)
(* characters, groups ( ), alternation | and the anchors ^ and $; a        *)
(* pattern is matched as the regular expression engine matches it, the     *)
(* alternatives tried from left to right, the leftmost choice varying      *)
(* slowest.                                                                *)
(***************************************************************************)
RuleLine(toReplace, replacement, prefix, suffix) ==
  [toReplace |-> toReplace, replacement |-> replacement, prefix |-> prefix, suffix |-> suffix]

CharGroup(key, value) ==
  [key |-> key, value |-> value]

\* String.prototype.replace(pattern, value) for a pattern without the g flag
RECURSIVE ReplaceFirstToken(_, _, _)
ReplaceFirstToken(str, token, value) ==
  IF str = <<>> THEN <<>>
  ELSE IF Head(str) = token THEN value \o Tail(str)
  ELSE <<Head(str)>> \o ReplaceFirstToken(Tail(str), token, value)

\* String.prototype.replace(new RegExp(key, 'gu'), value)
RECURSIVE ReplaceEveryToken(_, _, _)
ReplaceEveryToken(str, token, value) ==
  IF str = <<>> THEN <<>>
  ELSE (IF Head(str) = token THEN value ELSE <<Head(str)>>)
       \o ReplaceEveryToken(Tail(str), token, value)

\* a string that is neither undefined nor empty
Truthy(str) ==
  str # Undefined /\ str # Null /\ str # <<>>

\* the loop of the constructor over Object.entries(charGroups)
RECURSIVE ExpandContext(_, _, _)
ExpandContext(context, charGroups, anchor) ==
  IF charGroups = <<>> THEN context
  ELSE ExpandContext(
         IF Truthy(context)
           THEN ReplaceFirstToken(
                  ReplaceEveryToken(context, Head(charGroups).key, Head(charGroups).value),
                  "#", <<anchor>>)
           ELSE <<>>,
         Tail(charGroups), anchor)

\* new Rule(rule, charGroups)
Rule(line, charGroups) ==
  [toReplace |-> line.toReplace,
   replacement |-> ReplaceFirstToken(line.replacement, "0", <<>>),
   prefix |-> ExpandContext(line.prefix, charGroups, "^"),
   suffix |-> ExpandContext(line.suffix, charGroups, "$")]

\* a field interpolated into the template literal of the pattern
Interpolated(str) ==
  IF str = Undefined THEN UndefinedText ELSE str

\* Rule.regex: the source of the pattern
regex(rule) ==
  <<"(">> \o Interpolated(rule.prefix) \o <<")", "(">> \o Interpolated(rule.toReplace)
    \o <<")", "(">> \o Interpolated(rule.suffix) \o <<")">>

OpenMarks ==
  <<"<1", "<2", "<3", "<4", "<5", "<6", "<7", "<8">>

CloseMarks ==
  <<">1", ">2", ">3", ">4", ">5", ">6", ">7", ">8">>

\* the number of the capture group that opens at position i of the pattern
GroupNo(re, i) ==
  Cardinality({j \in 1..i : re[j] = "("})

\* the position of the parenthesis that closes the group opened just before position i
RECURSIVE ClosingFrom(_, _, _)
ClosingFrom(re, i, depth) ==
  IF re[i] = ")" THEN (IF depth = 0 THEN i ELSE ClosingFrom(re, i + 1, depth - 1))
  ELSE IF re[i] = "(" THEN ClosingFrom(re, i + 1, depth + 1)
  ELSE ClosingFrom(re, i + 1, depth)

\* the position of the first | of re[i..j] outside every group, 0 if there is none
RECURSIVE TopLevelBar(_, _, _)
TopLevelBar(re, i, j) ==
  IF i > j THEN 0
  ELSE IF re[i] = "|" THEN i
  ELSE IF re[i] = "(" THEN TopLevelBar(re, ClosingFrom(re, i + 1, 0) + 1, j)
  ELSE TopLevelBar(re, i + 1, j)

\* every way of matching first one of as and then one of bs, in the order of trial
Product(as, bs) ==
  [n \in 1..(Len(as) * Len(bs)) |->
     as[((n - 1) \div Len(bs)) + 1] \o bs[((n - 1) % Len(bs)) + 1]]

\* the ways of matching re[i..j], in the order the engine tries them: each is the
\* characters and anchors to match in turn, with the marks of the groups entered
RECURSIVE Alternatives(_, _, _), Concatenation(_, _, _)
Alternatives(re, i, j) ==
  LET bar == TopLevelBar(re, i, j)
  IN  IF bar = 0 THEN Concatenation(re, i, j)
      ELSE Concatenation(re, i, bar - 1) \o Alternatives(re, bar + 1, j)

Concatenation(re, i, j) ==
  IF i > j THEN <<(<<>>)>>
  ELSE IF re[i] = "("
    THEN LET close == ClosingFrom(re, i + 1, 0)
             k == GroupNo(re, i)
             inner == Alternatives(re, i + 1, close - 1)
             group == [n \in 1..Len(inner) |->
                         <<OpenMarks[k]>> \o inner[n] \o <<CloseMarks[k]>>]
         IN  Product(group, Concatenation(re, close + 1, j))
    ELSE Product(<<(<<re[i]>>)>>, Concatenation(re, i + 1, j))

IsMark(token) ==
  token \in Range(OpenMarks) \cup Range(CloseMarks)

\* the index in word (0-based) at which the match of way[n..] begun at index at ends,
\* -1 if it does not match there
RECURSIVE MatchEnd(_, _, _, _)
MatchEnd(way, n, word, at) ==
  IF n > Len(way) THEN at
  ELSE IF IsMark(way[n]) THEN MatchEnd(way, n + 1, word, at)
  ELSE IF way[n] = "^" THEN (IF at = 0 THEN MatchEnd(way, n + 1, word, at) ELSE -1)
  ELSE IF way[n] = "$" THEN (IF at = Len(word) THEN MatchEnd(way, n + 1, word, at) ELSE -1)
  ELSE IF CharAt(word, at) = way[n] THEN MatchEnd(way, n + 1, word, at + 1)
  ELSE -1

\* the characters that way[1..n] consumes
Consumed(way, n) ==
  Cardinality({m \in 1..n : ~IsMark(way[m]) /\ way[m] \notin {"^", "$"}})

Position(way, token) ==
  CHOOSE n \in DOMAIN way : way[n] = token

\* what capture group k holds after way matched word at index at; a group that took
\* no part in the match is undefined
Capture(way, k, word, at) ==
  IF OpenMarks[k] \notin Range(way) THEN Undefined
  ELSE SubSeq(word, at + Consumed(way, Position(way, OpenMarks[k])) + 1,
                    at + Consumed(way, Position(way, CloseMarks[k])))

\* the first way that matches word at index at, 0 if none does
FirstWayAt(ways, word, at) ==
  LET matching == {n \in DOMAIN ways : MatchEnd(ways[n], 1, word, at) >= 0}
  IN  IF matching = {} THEN 0 ELSE CHOOSE n \in matching : \A m \in matching : n <= m

\* RegExp.prototype.exec from lastIndex: the leftmost index with a match, -1 if none
FirstMatchFrom(ways, word, lastIndex) ==
  LET starts == {at \in lastIndex..Len(word) : FirstWayAt(ways, word, at) # 0}
  IN  IF starts = {} THEN -1 ELSE CHOOSE at \in starts : \A other \in starts : at <= other

\* the replacer callback (_m, a, _b, c) => a + this._replacement + c
Replacer(rule, a, c) ==
  Interpolated(a) \o rule.replacement \o Interpolated(c)

\* String.prototype.replace with a global pattern and a callback
RECURSIVE ReplaceLoop(_, _, _, _, _)
ReplaceLoop(rule, ways, word, lastIndex, nextSourcePosition) ==
  LET at == FirstMatchFrom(ways, word, lastIndex)
  IN  IF at < 0 THEN SubSeq(word, nextSourcePosition + 1, Len(word))
      ELSE LET way == ways[FirstWayAt(ways, word, at)]
               end == MatchEnd(way, 1, word, at)
           IN  SubSeq(word, nextSourcePosition + 1, at)
                 \o Replacer(rule, Capture(way, 1, word, at), Capture(way, 3, word, at))
                 \o ReplaceLoop(rule, ways, word, IF end = at THEN end + 1 ELSE end, end)

\* apply with the fault of scanning its own output once more
applyRescanning(rule, word) ==
  ReplaceLoop(rule, Alternatives(regex(rule), 1, Len(regex(rule))),
              ReplaceLoop(rule, Alternatives(regex(rule), 1, Len(regex(rule))), word, 0, 0),
              0, 0)

\* Rule.apply
apply(rule, word) ==
  ReplaceLoop(rule, Alternatives(regex(rule), 1, Len(regex(rule))), word, 0, 0)

\* the reduce of RuleProcessor.process
RECURSIVE Reduce(_, _)
Reduce(rules, w) ==
  IF rules = <<>> THEN w ELSE Reduce(Tail(rules), apply(Head(rules), w))

\* process with the fault of applying the rules from the last to the first
processReversed(rules, word) ==
  IF Len(rules) = 0 THEN word
  ELSE Reduce([n \in 1..Len(rules) |-> rules[Len(rules) + 1 - n]], word)

\* RuleProcessor.process
process(rules, word) ==
  IF Len(rules) = 0 THEN word ELSE Reduce(rules, word)

(***************************************************************************)
(* The scan of the two steppers.  In a stepper, a level is named by the    *)
(* path of the node it hangs under and a node by its own path, both in the *)
(* dictionary of the current language; an element of the result array is a *)
(* node (by reference: its phonetics are read when the result is joined)   *)
(* or a string.                                                            *)
(***************************************************************************)
RootLevel ==
  <<>>

NodeToken(node) ==
  [isNode |-> TRUE, node |-> node, str |-> <<>>]

StringToken(str) ==
  [isNode |-> FALSE, node |-> <<>>, str |-> str]

\* this.firstCharsLevel as a level of the stepper: undefined when no dictionary of
\* the current language is registered
CurrentFirstCharsLevel(stepper) ==
  IF HasFirstCharsLevel(stepper) THEN RootLevel ELSE Undefined

\* char in this._currentLevel
InLevel(stepper, char) ==
  Append(stepper.currentLevel, char) \in DOMAIN firstCharsLevel(stepper)

\* reset with the fault of forgetting where the last candidate was recorded, as
\* clear does
resetWithResultCursor(stepper) ==
  [stepper EXCEPT
     !.currentLevel = CurrentFirstCharsLevel(stepper),
     !.lastNodeWithResult = Null,
     !.lastResultCursor = NoCursor,
     !.foundChars = FALSE]

\* TrieStepperAbstract.reset
reset(stepper) ==
  [stepper EXCEPT
     !.currentLevel = CurrentFirstCharsLevel(stepper),
     !.lastNodeWithResult = Null,
     !.foundChars = FALSE]

\* clear with the fault of dropping the dictionaries and the language as well
clearWithDictionaries(stepper) ==
  [stepper EXCEPT
     !.loadedDictionaries = <<>>,
     !.currentLanguageCode = NoLanguage,
     !.currentLevel = Null,
     !.lastNodeWithResult = Null,
     !.lastResultCursor = NoCursor,
     !.currentNode = Null,
     !.cursor = 0,
     !.result = <<>>,
     !.text = Null,
     !.foundChars = FALSE]

\* TrieStepperAbstract.clear
clear(stepper) ==
  [stepper EXCEPT
     !.currentLevel = CurrentFirstCharsLevel(stepper),
     !.lastNodeWithResult = Null,
     !.lastResultCursor = NoCursor,
     !.currentNode = Null,
     !.cursor = 0,
     !.result = <<>>,
     !.text = Null,
     !.foundChars = FALSE]

\* the text as translateText stores it
Padded(text) ==
  <<" ">> \o toLowerCase(text) \o <<" ">>

\* values that are not strings: null, undefined, a number
NonStrings ==
  {Null, Undefined, <<"<number>">>}

\* typeof text === 'string'
IsString(text) ==
  text \notin NonStrings

\* the setter of text: a value that is not a string is stored as null
setText(stepper, text) ==
  [stepper EXCEPT !.text = IF IsString(text) THEN Padded(text) ELSE Null]

\* run with the test of the text made after the level is set
RunRejectedLate(stepper) ==
  [stepper EXCEPT !.currentLevel = CurrentFirstCharsLevel(stepper)]

\* lines 470 and 597: the stepper that run leaves when this._text is not a string;
\* the test is the first statement of both run methods
RunRejected(stepper) ==
  stepper

\* line 379: the stepper that translateText leaves when text is not a string
TranslateTextRejected(stepper) ==
  stepper

\* the callback of result with the fault of taking the variant added last
TokenTextLast(stepper, token) ==
  IF token.isNode
    THEN LET phonetics == firstCharsLevel(stepper)[token.node].phonetics
         IN  IF phonetics = <<>> THEN <<>> ELSE phonetics[Len(phonetics)]
    ELSE token.str

\* r instanceof CharNode ? [...r.phonetics][0] : r, as join('') renders it
TokenText(stepper, token) ==
  IF token.isNode
    THEN LET phonetics == firstCharsLevel(stepper)[token.node].phonetics
         IN  IF phonetics = <<>> THEN <<>> ELSE phonetics[1]
    ELSE token.str

\* TrieStepperAbstract.result
result(stepper) ==
  Join([n \in DOMAIN stepper.result |-> TokenText(stepper, stepper.result[n])])

\* TrieStepperAbstract.resultRaw: a node as its phonetics and word, a string as char
resultRaw(stepper) ==
  [n \in DOMAIN stepper.result |->
     IF stepper.result[n].isNode
       THEN [isNode |-> TRUE,
             phonetics |-> firstCharsLevel(stepper)[stepper.result[n].node].phonetics,
             word |-> firstCharsLevel(stepper)[stepper.result[n].node].word,
             char |-> <<>>]
       ELSE [isNode |-> FALSE, phonetics |-> <<>>, word |-> <<>>,
             char |-> stepper.result[n].str]]

\* escapeSsml: the five replace calls in their order, each over the whole string
escapeSsml(str) ==
  ReplaceEveryToken(
    ReplaceEveryToken(
      ReplaceEveryToken(
        ReplaceEveryToken(
          ReplaceEveryToken(str, "\"", <<"&", "q", "u", "o", "t", ";">>),
          "&", <<"&", "a", "m", "p", ";">>),
        "'", <<"&", "a", "p", "o", "s", ";">>),
      "<", <<>>),
    ">", <<>>)

\* the markup that pollyResult writes, each piece one element of the string
PhonemeOpen ==
  <<"<phoneme alphabet='ipa' ph='">>

PhonemeClose ==
  <<"'/>">>

\* _prosody is 85 in every stepper of the model: the setter is never called
SpeakOpen ==
  <<"<speak><prosody rate=\"85%\">">>

SpeakClose ==
  <<"</prosody></speak>">>

WeakBreak ==
  <<"<break strength=\"weak\"/>">>

\* the callback of pollyResult: [...r.phonetics][0].replace('/', '') replaces the
\* first slash only
SsmlToken(stepper, token) ==
  IF token.isNode
    THEN PhonemeOpen \o ReplaceFirstToken(TokenText(stepper, token), "/", <<>>)
           \o PhonemeClose
    ELSE escapeSsml(token.str)

\* .replace(/\n\n/ug, '\r')
RECURSIVE ReplaceBlankLines(_)
ReplaceBlankLines(str) ==
  IF str = <<>> THEN <<>>
  ELSE IF Len(str) >= 2 /\ str[1] = "\n" /\ str[2] = "\n"
    THEN <<"\r">> \o ReplaceBlankLines(SubSeq(str, 3, Len(str)))
  ELSE <<Head(str)>> \o ReplaceBlankLines(Tail(str))

\* TrieStepperAbstract.pollyResult
pollyResult(stepper) ==
  SpeakOpen
    \o ReplaceEveryToken(
         ReplaceBlankLines(
           Join([n \in DOMAIN stepper.result |-> SsmlToken(stepper, stepper.result[n])])),
         "\n", WeakBreak)
    \o SpeakClose

\* the second branch with the fault of leaving the cursor where the walk failed
PushWithoutRewind(stepper) ==
  reset([stepper EXCEPT
           !.result = Append(@, NodeToken(stepper.lastNodeWithResult)),
           !.lastAddedCursor = stepper.cursor])

\* the second branch of both run loops: the candidate is emitted and the scan goes
\* back to the character after it
PushLastNodeWithResult(stepper) ==
  reset([stepper EXCEPT
           !.result = Append(@, NodeToken(stepper.lastNodeWithResult)),
           !.cursor = stepper.lastResultCursor + 1,
           !.lastAddedCursor = stepper.lastResultCursor + 1])

(***************************************************************************)
(* TrieOrthographyStepper.                                                 *)
(***************************************************************************)
\* loadRuleFile: the rules of a rule file, none when the file cannot be read
loadRuleFile(file) ==
  IF file.exists
    THEN [n \in DOMAIN file.lines |-> Rule(file.lines[n], file.charGroups)]
    ELSE <<>>

RuleFile(lines, charGroups) ==
  [exists |-> TRUE, lines |-> lines, charGroups |-> charGroups]

addRulePreprocessorForLanguage(stepper, languageCode, file) ==
  [stepper EXCEPT
     !.rulePreprocessors =
        [l \in DOMAIN @ \cup {languageCode} |->
           IF l = languageCode THEN loadRuleFile(file) ELSE @[l]]]

addRulePostprocessorForLanguage(stepper, languageCode, file) ==
  [stepper EXCEPT
     !.rulePostprocessors =
        [l \in DOMAIN @ \cup {languageCode} |->
           IF l = languageCode THEN loadRuleFile(file) ELSE @[l]]]

\* translateText up to the loop of run: the text is stored, preprocessed, and the
\* scan starts at the root level
OrthStart(stepper, text) ==
  [stepper EXCEPT
     !.text = IF stepper.currentLanguageCode \in DOMAIN stepper.rulePreprocessors
                THEN process(stepper.rulePreprocessors[stepper.currentLanguageCode],
                             Padded(text))
                ELSE Padded(text),
     !.currentLevel = CurrentFirstCharsLevel(stepper)]

\* the first branch of the loop
OrthAdvance(stepper, char) ==
  LET node == Append(stepper.currentLevel, char)
      isWord == Truthy(firstCharsLevel(stepper)[node].word)
  IN  [stepper EXCEPT
         !.currentNode = node,
         !.currentLevel = node,
         !.lastNodeWithResult = IF isWord THEN node ELSE @,
         !.lastResultCursor = IF isWord THEN stepper.cursor ELSE @,
         !.cursor = @ + 1]

\* the third branch with the fault of moving the cursor two characters on
OrthEmitSpanSkipping(stepper) ==
  LET from == IF stepper.lastAddedCursor = UndefinedCursor THEN 0
              ELSE stepper.lastAddedCursor
      span == [n \in 1..(stepper.cursor - from + 1) |->
                 StringToken(<<CharAt(stepper.text, from + n - 1)>>)]
  IN  reset([stepper EXCEPT
               !.result = @ \o span,
               !.lastAddedCursor = stepper.cursor + 1,
               !.cursor = @ + 2])

\* the third branch: the characters from this._lastAddedCursor || 0 to the cursor
OrthEmitSpan(stepper) ==
  LET from == IF stepper.lastAddedCursor = UndefinedCursor THEN 0
              ELSE stepper.lastAddedCursor
      span == [n \in 1..(stepper.cursor - from + 1) |->
                 StringToken(<<CharAt(stepper.text, from + n - 1)>>)]
  IN  reset([stepper EXCEPT
               !.result = @ \o span,
               !.lastAddedCursor = stepper.cursor + 1,
               !.cursor = @ + 1])

\* one iteration of the loop of TrieOrthographyStepper.run
OrthIterate(stepper) ==
  LET char == CharAt(stepper.text, stepper.cursor)
  IN  IF InLevel(stepper, char) THEN OrthAdvance(stepper, char)
      ELSE IF stepper.lastNodeWithResult # Null THEN PushLastNodeWithResult(stepper)
      ELSE OrthEmitSpan(stepper)

\* the loop raises a TypeError when it tests a character against an undefined level
RunThrows(stepper) ==
  stepper.cursor < Len(stepper.text) /\ ~HasFirstCharsLevel(stepper)

RECURSIVE OrthRunLoop(_)
OrthRunLoop(stepper) ==
  IF stepper.cursor < Len(stepper.text) /\ HasFirstCharsLevel(stepper)
    THEN OrthRunLoop(OrthIterate(stepper))
    ELSE stepper

\* TrieOrthographyStepper.result raises a TypeError when a preprocessor is registered
\* for the language and no postprocessor is
OrthResultThrows(stepper) ==
  /\ stepper.currentLanguageCode \in DOMAIN stepper.rulePreprocessors
  /\ stepper.currentLanguageCode \notin DOMAIN stepper.rulePostprocessors

\* TrieOrthographyStepper.result
OrthResult(stepper) ==
  IF stepper.currentLanguageCode \in DOMAIN stepper.rulePreprocessors
    THEN process(stepper.rulePostprocessors[stepper.currentLanguageCode], result(stepper))
    ELSE result(stepper)

\* what translateText does after run: the stepper it leaves, the value it returns,
\* and whether it raised
OrthReturned(ran) ==
  [stepper |-> ran,
   value |-> IF RunThrows(ran) \/ OrthResultThrows(ran) THEN <<>>
             ELSE trim(OrthResult(ran)),
   threw |-> RunThrows(ran) \/ OrthResultThrows(ran)]

\* trieOrthography.translateText(text) as one call
OrthTranslateText(stepper, text) ==
  OrthReturned(OrthRunLoop(OrthStart(stepper, text)))

(***************************************************************************)
(* TrieWordStepper.                                                        *)
(***************************************************************************)
\* the condition of the first branch with the test of the previous character left out
MayFollowAnywhere(stepper, char) ==
  InLevel(stepper, char)

\* the condition of the first branch of the loop
MayFollow(stepper, char) ==
  /\ InLevel(stepper, char)
  /\ stepper.foundChars \/ ~isLetter(CharAt(stepper.text, stepper.cursor - 1))

\* the condition under which a node is recorded with the test of the next character
\* left out
IsWordEndAnywhere(stepper, node) ==
  Truthy(firstCharsLevel(stepper)[node].word)

\* the condition under which the node just reached is recorded as the candidate
IsWordEnd(stepper, node) ==
  /\ Truthy(firstCharsLevel(stepper)[node].word)
  /\ ~isLetter(CharAt(stepper.text, stepper.cursor + 1))

\* the first branch of the loop
WordAdvance(stepper, char) ==
  LET node == Append(stepper.currentLevel, char)
      isWord == IsWordEnd(stepper, node)
  IN  [stepper EXCEPT
         !.foundChars = TRUE,
         !.currentNode = node,
         !.currentLevel = node,
         !.lastNodeWithResult = IF isWord THEN node ELSE @,
         !.lastResultCursor = IF isWord THEN stepper.cursor ELSE @,
         !.cursor = @ + 1]

\* an unmatched word between the slashes of the earlier revision
DelimitedBySlashes(word) ==
  <<"/">> \o word \o <<"/">>

\* '#' + this._currentWord + '#'
Delimited(word) ==
  <<"#">> \o word \o <<"#">>

\* the collected word is emitted between the delimiters and the buffer emptied
PushCurrentWord(ws, currentWord) ==
  [ws EXCEPT !.result = Append(@, StringToken(Delimited(currentWord))),
             !.currentWord = <<>>]

\* lines 499-504: the collected word becomes what the orthography stepper returned
\* for it, the orthography stepper is cleared, and the word is emitted; an error
\* raised by the orthography stepper leaves both steppers as they are then
PushTranslatedWord(ws, currentWord, call) ==
  IF call.threw
    THEN [word |-> [ws EXCEPT !.currentWord = currentWord],
          orth |-> call.stepper,
          threw |-> TRUE]
    ELSE [word |-> PushCurrentWord(ws, call.value),
          orth |-> clear(call.stepper),
          threw |-> FALSE]

\* the body of the for loop of the third branch at index i: a non-letter is emitted,
\* a letter is collected, and the collected word is emitted at its last letter,
\* translated by the orthography stepper when one is attached
WordEmitChar(ws, os, i) ==
  LET char == CharAt(ws.text, i)
      currentWord == ws.currentWord \o (IF char = "<undefined>" THEN UndefinedText
                                        ELSE <<char>>)
  IN  IF ~isLetter(char)
        THEN [word |-> [ws EXCEPT !.result = Append(@, StringToken(<<char>>))],
              orth |-> os,
              threw |-> FALSE]
      ELSE IF isLetter(CharAt(ws.text, i + 1))
        THEN [word |-> [ws EXCEPT !.currentWord = currentWord],
              orth |-> os,
              threw |-> FALSE]
      ELSE IF ws.orthographyStepper
        THEN PushTranslatedWord(ws, currentWord, OrthTranslateText(os, currentWord))
      ELSE [word |-> PushCurrentWord(ws, currentWord), orth |-> os, threw |-> FALSE]

\* the for loop of the third branch from index i on; the comparison
\* undefined <= cursor is false; an error ends the loop
RECURSIVE WordEmitSpan(_, _)
WordEmitSpan(steppers, i) ==
  IF i = UndefinedCursor \/ i > steppers.word.cursor \/ steppers.threw
    THEN steppers
    ELSE WordEmitSpan(WordEmitChar(steppers.word, steppers.orth, i), i + 1)

\* the end of the third branch with the fault of leaving the cursor of the last
\* emission on the character just emitted
WordSpanEmittedLate(steppers) ==
  IF steppers.threw THEN steppers
  ELSE [steppers EXCEPT
          !.word = reset([@ EXCEPT !.lastAddedCursor = steppers.word.cursor,
                                   !.cursor = @ + 1])]

\* the end of the third branch
WordSpanEmitted(steppers) ==
  IF steppers.threw THEN steppers
  ELSE [steppers EXCEPT
          !.word = reset([@ EXCEPT !.lastAddedCursor = steppers.word.cursor + 1,
                                   !.cursor = @ + 1])]

\* one iteration of the loop of TrieWordStepper.run
WordIterate(ws, os) ==
  LET char == CharAt(ws.text, ws.cursor)
  IN  IF MayFollow(ws, char)
        THEN [word |-> WordAdvance(ws, char), orth |-> os, threw |-> FALSE]
      ELSE IF ws.lastNodeWithResult # Null
        THEN [word |-> PushLastNodeWithResult(ws), orth |-> os, threw |-> FALSE]
      ELSE WordSpanEmitted(
             WordEmitSpan([word |-> ws, orth |-> os, threw |-> FALSE], ws.lastAddedCursor))

(***************************************************************************)
(* translate(language, text) on the two shared steppers.                   *)
(***************************************************************************)
\* the while loop of TrieWordStepper.run
RECURSIVE WordRunLoop(_)
WordRunLoop(steppers) ==
  IF steppers.threw \/ steppers.word.cursor >= Len(steppers.word.text)
       \/ ~HasFirstCharsLevel(steppers.word)
    THEN steppers
    ELSE WordRunLoop(WordIterate(steppers.word, steppers.orth))

\* lines 772-775 of translate: the orthography stepper made ready for the language
OrthPrepared(os, language, resources) ==
  addRulePostprocessorForLanguage(
    addRulePreprocessorForLanguage(
      OrthLoadDictionary(os, language, resources.map[language]),
      language, resources.pre[language]),
    language, resources.post[language])

\* lines 771, 775 and 380 of translate and translateText: the word stepper with the
\* language loaded, the orthography stepper attached and the text stored
WordPrepared(ws, language, resources, text) ==
  [WordLoadDictionary(ws, language, resources.dict[language]) EXCEPT
     !.orthographyStepper = TRUE,
     !.text = Padded(text),
     !.currentLevel = RootLevel]

\* lines 776-778: the value returned and the steppers left behind once run is over
Translated(ran) ==
  [word |-> IF ran.threw THEN ran.word ELSE clear(ran.word),
   orth |-> ran.orth,
   value |-> IF ran.threw THEN <<>> ELSE trim(result(ran.word)),
   threw |-> ran.threw]

\* translate(language, text): an error raised by trieWord.loadDictionary ends the
\* call after the language was selected and registered
translate(ws, os, resources, language, text) ==
  IF WordLoadDictionaryThrows(ws, language, resources.dict[language])
    THEN [word |-> WordLoadDictionary(ws, language, resources.dict[language]),
          orth |-> os,
          value |-> <<>>,
          threw |-> TRUE]
    ELSE Translated(WordRunLoop([word |-> WordPrepared(ws, language, resources, text),
                                 orth |-> OrthPrepared(os, language, resources),
                                 threw |-> FALSE]))

(***************************************************************************)
(* The trie operations as calls on the steppers (SpecTrie).                *)
(***************************************************************************)
MaxInserted ==
  3

TrieWords ==
  {<<>>, <<"a">>, <<"a", "b">>, <<"b">>}

TriePhonetics ==
  {<<"p">>, <<"q">>, <<"p", ",", " ", "q">>}

DictFile ==
  File(<<Line(<<"A", "b">>, <<"p", ",", " ", "q">>), Line(<<>>, <<"p">>),
         Line(<<"b">>, <<>>)>>)

MapFile ==
  File(<<Line(<<"a">>, <<"p">>), Line(<<>>, <<>>)>>)

NoRuleFiles ==
  [l \in Languages |-> MissingFile]

TrieInit ==
  /\ wordStepper = FreshWordStepper
  /\ orthStepper = FreshOrthStepper
  /\ files = [dict |-> [l \in Languages |-> IF l = "en" THEN DictFile ELSE MissingFile],
              map |-> [l \in Languages |-> IF l = "en" THEN MapFile ELSE MissingFile],
              pre |-> NoRuleFiles,
              post |-> NoRuleFiles]
  /\ reads = 0
  /\ inserted = {}
  /\ lastOp = NoOp
  /\ phase = "idle"
  /\ input = <<>>
  /\ ruleState = NoRuleState

\* trieWord.loadDictionary(dictionary)
TrieWordLoadDictionary(dictionary) ==
  /\ wordStepper' = WordLoadDictionary(wordStepper, dictionary, files.dict[dictionary])
  /\ reads' = reads + LoadReads(wordStepper, dictionary)
  /\ inserted' = IF hasDictionary(wordStepper, dictionary) THEN inserted
                 ELSE inserted \cup InsertedBy(dictionary, files.dict[dictionary].lines)
  /\ lastOp' = [NoOp EXCEPT
                  !.op = "wordLoadDictionary", !.lang = dictionary,
                  !.threw = WordLoadDictionaryThrows(wordStepper, dictionary,
                                                     files.dict[dictionary])]
  /\ UNCHANGED <<orthStepper, files, phase, input, ruleState>>

\* trieOrthography.loadDictionary(dictionary)
TrieOrthLoadDictionary(dictionary) ==
  /\ orthStepper' = OrthLoadDictionary(orthStepper, dictionary, files.map[dictionary])
  /\ reads' = reads + LoadReads(orthStepper, dictionary)
  /\ lastOp' = [NoOp EXCEPT !.op = "orthLoadDictionary", !.lang = dictionary]
  /\ UNCHANGED <<wordStepper, inserted, files, phase, input, ruleState>>

\* addWord with the fault of returning silently when there is no root level
AddWordSilent(stepper) ==
  FALSE

\* line 160: `currentChar in currentCharLevel` raises a TypeError when
\* this.firstCharsLevel is undefined
AddWordThrows(stepper) ==
  ~HasFirstCharsLevel(stepper)

\* trieWord.addWord(word, phonetic): `in` on an undefined root level raises
TrieAddWord(word, phonetic) ==
  /\ Cardinality(inserted) < MaxInserted
  /\ IF HasFirstCharsLevel(wordStepper)
       THEN /\ wordStepper' =
                 [wordStepper EXCEPT
                    !.loadedDictionaries[wordStepper.currentLanguageCode] =
                       addWord(@, word, phonetic)]
            /\ inserted' = inserted \cup
                 {<<wordStepper.currentLanguageCode, word, o>> :
                    o \in Range(splitCommaSpace(phonetic))}
            /\ lastOp' = [NoOp EXCEPT !.op = "addWord", !.word = word]
       ELSE /\ lastOp' = [NoOp EXCEPT !.op = "addWord", !.word = word,
                                      !.threw = AddWordThrows(wordStepper)]
            /\ UNCHANGED <<wordStepper, inserted>>
  /\ UNCHANGED <<orthStepper, files, reads, phase, input, ruleState>>

\* trieWord.findCharNode(word)
TrieFindCharNode(word) ==
  /\ lastOp' = IF HasFirstCharsLevel(wordStepper)
                 THEN [NoOp EXCEPT !.op = "findCharNode", !.word = word,
                                   !.found = findCharNode(firstCharsLevel(wordStepper), word)]
                 ELSE [NoOp EXCEPT !.op = "findCharNode", !.word = word, !.threw = TRUE]
  /\ UNCHANGED <<wordStepper, orthStepper, files, reads, inserted, phase, input, ruleState>>

\* trieWord.findPhonetics(word)
TrieFindPhonetics(word) ==
  /\ lastOp' = IF HasFirstCharsLevel(wordStepper)
                 THEN [NoOp EXCEPT !.op = "findPhonetics", !.word = word,
                                   !.found = findPhonetics(firstCharsLevel(wordStepper), word)]
                 ELSE [NoOp EXCEPT !.op = "findPhonetics", !.word = word, !.threw = TRUE]
  /\ UNCHANGED <<wordStepper, orthStepper, files, reads, inserted, phase, input, ruleState>>

TrieTexts ==
  {<<"A", "b", " ", "a">>}

\* the loadFile calls that lines 773 and 774 of translate make for rule files: each
\* of the two calls builds a RuleProcessor and loads its file (578-579, 588-589);
\* none is made when trieWord.loadDictionary has raised
TranslateRuleReads(stepper, language) ==
  IF WordLoadDictionaryThrows(stepper, language, files.dict[language]) THEN 0 ELSE 2

\* translate(language, text)
TrieTranslate(language, text) ==
  /\ \E call \in {translate(wordStepper, orthStepper, files, language, text)} :
       /\ wordStepper' = call.word
       /\ orthStepper' = call.orth
       /\ lastOp' = [NoOp EXCEPT !.op = "translate", !.lang = language,
                                 !.word = call.value, !.threw = call.threw,
                                 !.ruleReads = TranslateRuleReads(wordStepper, language)]
       /\ reads' = reads + LoadReads(wordStepper, language)
                     + (IF call.threw THEN 0 ELSE LoadReads(orthStepper, language))
  /\ inserted' = IF hasDictionary(wordStepper, language) THEN inserted
                 ELSE inserted \cup InsertedBy(language, files.dict[language].lines)
  /\ UNCHANGED <<files, phase, input, ruleState>>

TrieNext ==
  \/ \E l \in Languages : TrieWordLoadDictionary(l)
  \/ \E l \in Languages : TrieOrthLoadDictionary(l)
  \/ \E w \in TrieWords, p \in TriePhonetics : TrieAddWord(w, p)
  \/ \E w \in TrieWords : TrieFindCharNode(w)
  \/ \E w \in TrieWords : TrieFindPhonetics(w)
  \/ \E l \in Languages, t \in TrieTexts : TrieTranslate(l, t)

SpecTrie ==
  TrieInit /\ [][TrieNext]_vars

(***************************************************************************)
(* Claims about the trie (SpecTrie).                                       *)
(***************************************************************************)
\* C5: every word inserted into a dictionary is found by findCharNode, at a node
\* whose word is that word and whose phonetics hold every option inserted for it.
C5_InsertedWordsAreFound ==
  \A t \in inserted :
    LET found == findCharNode(wordStepper.loadedDictionaries[t[1]], t[2])
    IN  /\ Cardinality(found) = 1
        /\ \A n \in found : n.word = t[2] /\ t[3] \in Range(n.phonetics)

\* C5 witness: a word given two options by separate insertions has just been looked up
C5_Witness ==
  /\ lastOp.op = "findCharNode"
  /\ lastOp.word = <<"b">>
  /\ \E n \in lastOp.found : n.word = lastOp.word /\ n.phonetics = <<(<<"q">>), (<<"p">>)>>

\* the strings that are a strict prefix of a word inserted into language l and were
\* never inserted into it themselves
StrictPrefixOnly(l, w) ==
  /\ \E t \in inserted : t[1] = l /\ Len(w) < Len(t[2]) /\ SubSeq(t[2], 1, Len(w)) = w
  /\ ~\E t \in inserted : t[1] = l /\ t[2] = w

\* C6: findCharNode and findPhonetics of a string that is only a strict prefix of
\* inserted words return null.
C6_StrictPrefixNotFound ==
  (/\ lastOp.op \in {"findCharNode", "findPhonetics"}
   /\ ~lastOp.threw
   /\ StrictPrefixOnly(wordStepper.currentLanguageCode, lastOp.word))
  => lastOp.found = {}

\* C7: loadDictionary of a language already loaded, called directly or by translate,
\* reads no dictionary or map resource, inserts nothing and leaves every dictionary as
\* it is; called directly it only selects the language.
C7_LoadDictionaryCached ==
  [][/\ (lastOp'.op = "wordLoadDictionary" /\ hasDictionary(wordStepper, lastOp'.lang))
        => /\ reads' = reads
           /\ inserted' = inserted
           /\ ~lastOp'.threw
           /\ wordStepper'.loadedDictionaries = wordStepper.loadedDictionaries
           /\ wordStepper' = [wordStepper EXCEPT !.currentLanguageCode = lastOp'.lang]
     /\ (lastOp'.op = "orthLoadDictionary" /\ hasDictionary(orthStepper, lastOp'.lang))
        => /\ reads' = reads
           /\ orthStepper' = [orthStepper EXCEPT !.currentLanguageCode = lastOp'.lang]
     /\ (lastOp'.op = "translate" /\ hasDictionary(wordStepper, lastOp'.lang))
        => /\ inserted' = inserted
           /\ ~lastOp'.threw
           /\ wordStepper'.loadedDictionaries = wordStepper.loadedDictionaries
           /\ wordStepper'.currentLanguageCode = lastOp'.lang
           /\ reads' = reads + LoadReads(orthStepper, lastOp'.lang)
     /\ (lastOp'.op = "translate" /\ hasDictionary(orthStepper, lastOp'.lang)
           /\ ~lastOp'.threw)
        => /\ orthStepper'.loadedDictionaries = orthStepper.loadedDictionaries
           /\ orthStepper'.currentLanguageCode = lastOp'.lang
           /\ reads' = reads + LoadReads(wordStepper, lastOp'.lang)]_vars

\* C7 witness: a language is loaded again after a word was added to it by hand
C7_Witness ==
  /\ lastOp.op = "wordLoadDictionary"
  /\ lastOp.lang = "en"
  /\ reads = 1
  /\ <<"en", <<"b">>, <<"q">>>> \in inserted

\* the elements of a sequence in the order of their first occurrence, each once
RECURSIVE FirstOccurrences(_)
FirstOccurrences(seq) ==
  IF seq = <<>> THEN <<>>
  ELSE LET front == FirstOccurrences(SubSeq(seq, 1, Len(seq) - 1))
       IN  IF seq[Len(seq)] \in Range(front) THEN front ELSE Append(front, seq[Len(seq)])

\* the phonetics of the node of a word in a dictionary, none when there is no node
PhoneticsOf(dict, word) ==
  IF KeyPath(word) \in DOMAIN dict THEN dict[KeyPath(word)].phonetics ELSE <<>>

\* C15: every addWord(w, p) leaves at the node of w the options it held before, in
\* their order, followed by the options of p (p split on ", ") that it did not hold,
\* in their order in p, each once; the phonetics of every other node stay as they
\* were; and the options at the node of an inserted word are, each once, exactly the
\* options inserted for it in its language.
C15_AddWordAccumulates ==
  /\ [][(lastOp'.op = "addWord" /\ ~lastOp'.threw)
        => LET l == wordStepper.currentLanguageCode
               old == wordStepper.loadedDictionaries[l]
               new == wordStepper'.loadedDictionaries[l]
           IN  /\ \E p \in TriePhonetics :
                    /\ inserted' = inserted \cup
                         {<<l, lastOp'.word, o>> : o \in Range(splitCommaSpace(p))}
                    /\ PhoneticsOf(new, lastOp'.word) =
                         FirstOccurrences(PhoneticsOf(old, lastOp'.word)
                                            \o splitCommaSpace(p))
               /\ \A path \in DOMAIN old :
                    path # KeyPath(lastOp'.word) => new[path].phonetics = old[path].phonetics]_vars
  /\ [](\A l \in DOMAIN wordStepper.loadedDictionaries :
          \A path \in DOMAIN wordStepper.loadedDictionaries[l] :
            LET node == wordStepper.loadedDictionaries[l][path]
            IN  /\ FirstOccurrences(node.phonetics) = node.phonetics
                /\ node.word # Null
                    => Range(node.phonetics) =
                         {t[3] : t \in {u \in inserted : u[1] = l /\ u[2] = node.word}})

\* C15 witness: addWord has put the option p after the option q that an earlier call
\* had given the same word
C15_Witness ==
  /\ lastOp.op = "addWord"
  /\ lastOp.word = <<"a">>
  /\ ~lastOp.threw
  /\ HasFirstCharsLevel(wordStepper)
  /\ PhoneticsOf(firstCharsLevel(wordStepper), <<"a">>) = <<(<<"q">>), (<<"p">>)>>

\* C16: addWord called while no dictionary is selected (no root level) raises an
\* error and creates no node: the steppers and their dictionaries stay as they were.
C16_AddWordNeedsDictionary ==
  [][(lastOp'.op = "addWord" /\ ~HasFirstCharsLevel(wordStepper))
     => /\ lastOp'.threw
        /\ wordStepper' = wordStepper
        /\ orthStepper' = orthStepper
        /\ inserted' = inserted]_vars

\* C16 witness: addWord('ab', ..) was called on the stepper before any loadDictionary
C16_Witness ==
  /\ lastOp.op = "addWord"
  /\ lastOp.word = <<"a", "b">>
  /\ lastOp.threw
  /\ wordStepper.currentLanguageCode = NoLanguage
  /\ DOMAIN wordStepper.loadedDictionaries = {}

\* C13: a load of a language whose dictionary file, map file or rule file cannot be
\* read does not raise, whether made by loadDictionary or by translate, and leaves the
\* language with an empty dictionary, an empty map or an empty list of rules.
C13_MissingResourcesDegrade ==
  [][/\ (/\ lastOp'.op \in {"wordLoadDictionary", "translate"}
         /\ ~hasDictionary(wordStepper, lastOp'.lang)
         /\ ~files.dict[lastOp'.lang].exists)
        => /\ ~lastOp'.threw
           /\ wordStepper'.loadedDictionaries[lastOp'.lang] = <<>>
     /\ (/\ lastOp'.op \in {"orthLoadDictionary", "translate"}
         /\ ~hasDictionary(orthStepper, lastOp'.lang)
         /\ ~files.map[lastOp'.lang].exists)
        => /\ ~lastOp'.threw
           /\ orthStepper'.loadedDictionaries[lastOp'.lang] = <<>>
     /\ (/\ lastOp'.op = "translate"
         /\ ~files.pre[lastOp'.lang].exists
         /\ ~files.post[lastOp'.lang].exists)
        => /\ ~lastOp'.threw
           /\ orthStepper'.rulePreprocessors[lastOp'.lang] = <<>>
           /\ orthStepper'.rulePostprocessors[lastOp'.lang] = <<>>]_vars

\* the words inserted into the dictionary of a language of a stepper: those of the
\* file and of addWord for the word stepper, those of the map file for the other
WordsInserted(isWord, l) ==
  IF isWord THEN {tr[2] : tr \in {x \in inserted : x[1] = l}}
  ELSE {tr[2] : tr \in InsertedBy(l, files.map[l].lines)}

\* the CharNode invariant of one dictionary
NodesWellFormed(dict, words) ==
  \A path \in DOMAIN dict :
    /\ dict[path].word # Null <=> path \in words
    /\ dict[path].word # Null => dict[path].word = path
    /\ dict[path].phonetics # <<>> <=> dict[path].word # Null

\* C28: as long as no empty word was inserted, in every dictionary of both steppers
\* a node has a word exactly if its path spells an inserted word, the word is then
\* that string, and the node has phonetics exactly if it has a word.
C28_CharNodeInvariant ==
  (\A tr \in inserted : tr[2] # <<>>)
  => /\ \A l \in DOMAIN wordStepper.loadedDictionaries :
          NodesWellFormed(wordStepper.loadedDictionaries[l], WordsInserted(TRUE, l))
     /\ \A l \in DOMAIN orthStepper.loadedDictionaries :
          NodesWellFormed(orthStepper.loadedDictionaries[l], WordsInserted(FALSE, l))

\* C28 witness: the dictionary holds ab from the file, with a on the way to it, and b
\* added by hand
C28_Witness ==
  /\ \A tr \in inserted : tr[2] # <<>>
  /\ hasDictionary(wordStepper, "en")
  /\ hasDictionary(orthStepper, "en")
  /\ wordStepper.loadedDictionaries["en"][<<"a">>].word = Null
  /\ wordStepper.loadedDictionaries["en"][<<"a", "b">>].word = <<"a", "b">>
  /\ <<"b">> \in DOMAIN wordStepper.loadedDictionaries["en"]
  /\ wordStepper.loadedDictionaries["en"][<<"b">>].phonetics = <<(<<"q">>)>>

\* what addWord may do to a dictionary: every node is kept with its character, its
\* word if it had one, and its phonetics in their order at the head of the new ones
KeptIn(before, after) ==
  \A path \in DOMAIN before :
    /\ path \in DOMAIN after
    /\ after[path].char = before[path].char
    /\ before[path].word # Null => after[path].word = before[path].word
    /\ Len(after[path].phonetics) >= Len(before[path].phonetics)
    /\ SubSeq(after[path].phonetics, 1, Len(before[path].phonetics))
         = before[path].phonetics

\* C29: an addWord call keeps every node of the selected dictionary with its word
\* marker and its phonetics, so that every word found before is found after with
\* phonetics that contain the earlier ones, and leaves every other dictionary of the
\* word stepper and the orthography stepper as they are.
C29_AppendOnly ==
  [][lastOp'.op = "addWord"
     => /\ orthStepper' = orthStepper
        /\ DOMAIN wordStepper'.loadedDictionaries = DOMAIN wordStepper.loadedDictionaries
        /\ \A l \in DOMAIN wordStepper.loadedDictionaries :
             IF l = wordStepper.currentLanguageCode
               THEN /\ KeptIn(wordStepper.loadedDictionaries[l],
                              wordStepper'.loadedDictionaries[l])
                    /\ \A w \in TrieWords :
                         \A n \in findCharNode(wordStepper.loadedDictionaries[l], w) :
                           \E k \in findCharNode(wordStepper'.loadedDictionaries[l], w) :
                             Range(n.phonetics) \subseteq Range(k.phonetics)
               ELSE wordStepper'.loadedDictionaries[l] = wordStepper.loadedDictionaries[l]
     ]_vars

\* C29 witness: with two dictionaries loaded, a was added by hand to the selected one,
\* where it was a node on the way to ab
C29_Witness ==
  /\ lastOp.op = "addWord"
  /\ lastOp.word = <<"a">>
  /\ ~lastOp.threw
  /\ DOMAIN wordStepper.loadedDictionaries = {"en", "de"}
  /\ wordStepper.currentLanguageCode = "en"
  /\ wordStepper.loadedDictionaries["en"][<<"a">>].word = <<"a">>
  /\ wordStepper.loadedDictionaries["en"][<<"a", "b">>].phonetics = <<(<<"p">>), <<"q">>>>

(***************************************************************************)
(* The rule engine on its own (SpecRule): a RuleProcessor is built from    *)
(* rule lines and character groups; the caller applies the rules one after *)
(* the other by hand, and calls process.                                   *)
(***************************************************************************)
MaxRules ==
  2

MaxRuleWordLen ==
  3

RuleAlphabet ==
  {"a", "e", "r", "b"}

VowelGroup ==
  CharGroup("::v::", <<"a", "|", "e">>)

CharGroupSets ==
  {<<>>, <<VowelGroup>>}

RuleLines ==
  {RuleLine(<<"r">>, <<"0">>, <<"e">>, <<"#">>),
   RuleLine(<<"r">>, <<"0">>, <<"(", "::v::", ")">>, <<"b">>),
   RuleLine(<<"r">>, <<"0">>, <<"a">>, <<"(", "b", ")">>),
   RuleLine(<<"a">>, <<"e">>, <<>>, <<"r">>)}

SeqsUpTo(S, n) ==
  UNION {[1..m -> S] : m \in 0..n}

RuleInit ==
  /\ wordStepper = FreshWordStepper
  /\ orthStepper = FreshOrthStepper
  /\ files = [dict |-> NoRuleFiles, map |-> NoRuleFiles, pre |-> NoRuleFiles,
              post |-> NoRuleFiles]
  /\ reads = 0
  /\ inserted = {}
  /\ lastOp = NoOp
  /\ phase = "idle"
  /\ input = <<>>
  /\ \E lines \in SeqsUpTo(RuleLines, MaxRules), groups \in CharGroupSets,
        word \in SeqsUpTo(RuleAlphabet, MaxRuleWordLen) :
       ruleState = [lines |-> lines,
                    charGroups |-> groups,
                    rules |-> [n \in DOMAIN lines |-> Rule(lines[n], groups)],
                    word |-> word,
                    index |-> 0,
                    acc |-> word]

\* the caller applies the next rule to what the rules before it produced
RuleApplyStep ==
  /\ ruleState.index < Len(ruleState.rules)
  /\ ruleState' = [ruleState EXCEPT
                     !.index = @ + 1,
                     !.acc = apply(ruleState.rules[ruleState.index + 1], @)]
  /\ UNCHANGED <<wordStepper, orthStepper, files, reads, inserted, lastOp, phase, input>>

\* ruleProcessor.process(word)
RuleProcess ==
  /\ lastOp.op = "none"
  /\ lastOp' = [NoOp EXCEPT !.op = "process",
                            !.word = process(ruleState.rules, ruleState.word)]
  /\ UNCHANGED <<wordStepper, orthStepper, files, reads, inserted, phase, input, ruleState>>

RuleNext ==
  \/ RuleApplyStep
  \/ RuleProcess

SpecRule ==
  RuleInit /\ [][RuleNext]_vars

\* C8: process applies the rules in order, each to the output of the one before;
\* with no rules it returns the word unchanged.
C8_ProcessIsPipeline ==
  lastOp.op = "process" =>
    /\ ~lastOp.threw
    /\ ruleState.index = Len(ruleState.rules) => lastOp.word = ruleState.acc
    /\ Len(ruleState.rules) = 0 => lastOp.word = ruleState.word

\* C8 witness: two rules whose order matters have been applied and process called
C8_Witness ==
  /\ lastOp.op = "process"
  /\ Len(ruleState.rules) = 2
  /\ ruleState.index = 2
  /\ ruleState.acc # ruleState.word
  /\ ruleState.acc # apply(ruleState.rules[1], apply(ruleState.rules[2], ruleState.word))

\* the number of the capture group that wraps toReplace, and of the one that wraps
\* the suffix, in the pattern of a rule
ToReplaceGroup(rule) ==
  2 + Cardinality({n \in DOMAIN Interpolated(rule.prefix) :
                     Interpolated(rule.prefix)[n] = "("})

SuffixGroup(rule) ==
  ToReplaceGroup(rule) + 1
    + Cardinality({n \in DOMAIN rule.toReplace : rule.toReplace[n] = "("})

\* C9: a rule whose replacement is "0" removes the matched toReplace and leaves the
\* text matched by the prefix and by the suffix in place (stated of the first match
\* of the first rule).
C9_DeletionMarker ==
  LET rule == ruleState.rules[1]
      word == ruleState.word
      ways == Alternatives(regex(rule), 1, Len(regex(rule)))
      at == FirstMatchFrom(ways, word, 0)
      way == ways[FirstWayAt(ways, word, at)]
      kept == SubSeq(word, 1, at) \o Capture(way, 1, word, at)
                \o Capture(way, SuffixGroup(rule), word, at)
  IN  (/\ ruleState.index = 1
       /\ ruleState.lines[1].replacement = <<"0">>
       /\ at >= 0)
      => /\ rule.replacement = <<>>
         /\ Len(ruleState.acc) >= Len(kept)
         /\ SubSeq(ruleState.acc, 1, Len(kept)) = kept
         /\ FirstMatchFrom(ways, word, MatchEnd(way, 1, word, at)) < 0
            => ruleState.acc = kept \o SubSeq(word, MatchEnd(way, 1, word, at) + 1,
                                              Len(word))

(***************************************************************************)
(* Translations (Spec): the word dictionary of a language is loaded, an    *)
(* orthography stepper may be loaded, given rule processors and attached   *)
(* as in translate(), and a text is translated by the word stepper or by   *)
(* the orthography stepper itself, one iteration of run at a time.         *)
(***************************************************************************)
MaxTextLen ==
  3

Language ==
  "en"

\* a dictionary file none of whose lines has both fields
NoEntries ==
  File(<<Line(<<"b">>, <<>>)>>)

HelloWorld ==
  File(<<Line(<<"h", "e", "l", "l", "o">>, <<"/", "h", "@", "'", "l", "o", "U", "/">>),
         Line(<<"w", "o", "r", "l", "d">>, <<"/", "w", "O", "r", "l", "d", "/">>)>>)

CatCategory ==
  File(<<Line(<<"c", "a", "t">>, <<"/", "k", "@", "t", "/">>),
         Line(<<"c", "a", "t", "e", "g", "o", "r", "y">>, <<"/", "k", "@", "t", "@", "g", "O", "r", "i", "/">>)>>)

OnlyA ==
  File(<<Line(<<"a">>, <<"/", "a", "/">>)>>)

AAndAb ==
  File(<<Line(<<"a">>, <<"/", "a", "/">>),
         Line(<<"a", "b">>, <<"/", "a", "b", "/">>)>>)

AbAndB ==
  File(<<Line(<<"A", "b">>, <<"/", "a", "b", "/", ",", " ", "/", "@", "b", "/">>),
         Line(<<"b">>, <<"/", "b", "/">>)>>)

AAndASpaceB ==
  File(<<Line(<<"a">>, <<"/", "a", "/">>),
         Line(<<"a", " ", "b">>, <<"/", "a", " ", "b", "/">>)>>)

DictFiles ==
  {NoEntries, HelloWorld, CatCategory, OnlyA, AAndAb, AbAndB, AAndASpaceB}

AAndAba ==
  File(<<Line(<<"a">>, <<"e">>),
         Line(<<"a", "b", "a">>, <<"o">>)>>)

CatCategoryMap ==
  File(<<Line(<<"c", "a", "t">>, <<"k", "@", "t">>),
         Line(<<"c", "a", "t", "e", "g", "o", "r", "y">>, <<"k", "@", "t", "@", "g", "O", "r", "i">>)>>)

MapFiles ==
  {MissingFile, AAndAba, CatCategoryMap}

\* the rule files of a language: both missing, or a preprocessor and a postprocessor
RuleFiles ==
  {[pre |-> MissingFile, post |-> MissingFile],
   [pre |-> RuleFile(<<RuleLine(<<"b">>, <<"a">>, <<"a">>, <<"b">>)>>, <<>>),
    post |-> RuleFile(<<RuleLine(<<"e">>, <<"0">>, <<>>, <<"(", "::v::", ")">>)>>,
                      <<VowelGroup>>)]}

\* which rule processors are registered before the translation
Registrations ==
  {"none", "preprocessor", "postprocessor", "both"}

HelloWorldText ==
  <<"H", "e", "l", "l", "o", " ", "w", "o", "r", "l", "d", "!">>

TheCatSat ==
  <<"t", "h", "e", " ", "c", "a", "t", " ", "s", "a", "t">>

Category ==
  <<"c", "a", "t", "e", "g", "o", "r", "y">>

Cats ==
  <<"c", "a", "t", "s">>

Cat ==
  <<"c", "a", "t">>

Tomcat ==
  <<"t", "o", "m", "c", "a", "t">>

\* a text in which cat starts inside a walk that fails
Ccat ==
  <<"c", "c", "a", "t">>

CatAndFriends ==
  <<"c", "a", "t", " ", "&", " ", "f", "r", "i", "e", "n", "d", "s">>

\* a text of the characters that escapeSsml replaces
Markup ==
  <<"\"", "<", "&", "'", ">">>

Texts ==
  SeqsUpTo({"a", "b", " "}, MaxTextLen)
    \cup {HelloWorldText, TheCatSat, Category, Cats, Cat, Tomcat, Ccat, CatAndFriends,
          Markup}

\* the words and phonetics that the caller adds by hand after a translation
AddedWords ==
  {<<"a", "b">>, Cat}

AddedPhonetics ==
  {<<"/", "x", "/", ",", " ", "/", "a", "b", "/">>}

Init ==
  /\ wordStepper = FreshWordStepper
  /\ orthStepper = FreshOrthStepper
  /\ \E d \in DictFiles, m \in MapFiles, r \in RuleFiles :
       files = [dict |-> [l \in Languages |-> IF l = Language THEN d ELSE MissingFile],
                map |-> [l \in Languages |-> IF l = Language THEN m ELSE MissingFile],
                pre |-> [l \in Languages |-> IF l = Language THEN r.pre ELSE MissingFile],
                post |-> [l \in Languages |-> IF l = Language THEN r.post ELSE MissingFile]]
  /\ reads = 0
  /\ inserted = {}
  /\ lastOp = NoOp
  /\ phase = "new"
  /\ input = <<>>
  /\ ruleState = NoRuleState

\* trieWord.loadDictionary(language)
LoadDictionary ==
  /\ phase = "new"
  /\ wordStepper' = WordLoadDictionary(wordStepper, Language, files.dict[Language])
  /\ reads' = reads + LoadReads(wordStepper, Language)
  /\ inserted' = inserted \cup InsertedBy(Language, files.dict[Language].lines)
  /\ lastOp' = [NoOp EXCEPT !.op = "wordLoadDictionary", !.lang = Language]
  /\ phase' = "loaded"
  /\ UNCHANGED <<orthStepper, files, input, ruleState>>

\* the rule processors added to the orthography stepper
Registered(stepper, registration) ==
  IF registration = "none" THEN stepper
  ELSE IF registration = "preprocessor"
    THEN addRulePreprocessorForLanguage(stepper, Language, files.pre[Language])
  ELSE IF registration = "postprocessor"
    THEN addRulePostprocessorForLanguage(stepper, Language, files.post[Language])
  ELSE addRulePostprocessorForLanguage(
         addRulePreprocessorForLanguage(stepper, Language, files.pre[Language]),
         Language, files.post[Language])

\* trieOrthography.loadDictionary(language), the rule processors,
\* trieWord.addOrthographyStepper(trieOrthography)
AddOrthographyStepper(registration) ==
  /\ phase = "loaded"
  /\ orthStepper' = Registered(OrthLoadDictionary(orthStepper, Language, files.map[Language]),
                               registration)
  /\ wordStepper' = [wordStepper EXCEPT !.orthographyStepper = TRUE]
  /\ reads' = reads + LoadReads(orthStepper, Language)
  /\ lastOp' = [NoOp EXCEPT !.op = "addOrthographyStepper", !.lang = Language]
  /\ phase' = "attached"
  /\ UNCHANGED <<files, inserted, input, ruleState>>

\* trieWord.translateText(text), up to the loop of run
TranslateText(text) ==
  /\ phase \in {"loaded", "attached"}
  /\ wordStepper' = [wordStepper EXCEPT
                       !.text = Padded(text),
                       !.currentLevel = CurrentFirstCharsLevel(wordStepper)]
  /\ input' = text
  /\ lastOp' = NoOp
  /\ phase' = "word"
  /\ UNCHANGED <<orthStepper, files, reads, inserted, ruleState>>

\* one iteration of the loop of TrieWordStepper.run
WordRunStep ==
  /\ phase = "word"
  /\ wordStepper.cursor < Len(wordStepper.text)
  /\ \E iteration \in {WordIterate(wordStepper, orthStepper)} :
       /\ wordStepper' = iteration.word
       /\ orthStepper' = iteration.orth
       /\ phase' = IF iteration.threw THEN "threw" ELSE "word"
       /\ lastOp' = IF iteration.threw
                      THEN [NoOp EXCEPT !.op = "translateText", !.threw = TRUE]
                      ELSE lastOp
  /\ UNCHANGED <<files, reads, inserted, input, ruleState>>

\* the loop of run is over: translateText returns the trimmed result
WordReturn ==
  /\ phase = "word"
  /\ wordStepper.cursor >= Len(wordStepper.text)
  /\ lastOp' = [NoOp EXCEPT !.op = "translateText", !.word = trim(result(wordStepper))]
  /\ phase' = "done"
  /\ UNCHANGED <<wordStepper, orthStepper, files, reads, inserted, input, ruleState>>

\* trieOrthography.translateText(text), up to the loop of run
OrthStartTranslateText(text) ==
  /\ phase = "attached"
  /\ orthStepper' = OrthStart(orthStepper, text)
  /\ input' = text
  /\ lastOp' = NoOp
  /\ phase' = "orth"
  /\ UNCHANGED <<wordStepper, files, reads, inserted, ruleState>>

\* one iteration of the loop of TrieOrthographyStepper.run
OrthRunStep ==
  /\ phase = "orth"
  /\ orthStepper.cursor < Len(orthStepper.text)
  /\ orthStepper' = OrthIterate(orthStepper)
  /\ UNCHANGED <<wordStepper, files, reads, inserted, lastOp, phase, input, ruleState>>

\* the loop of run is over: the result getter raises or translateText returns
OrthReturn ==
  /\ phase = "orth"
  /\ orthStepper.cursor >= Len(orthStepper.text)
  /\ IF OrthResultThrows(orthStepper)
       THEN /\ lastOp' = [NoOp EXCEPT !.op = "orthTranslateText", !.threw = TRUE]
            /\ phase' = "threw"
       ELSE /\ lastOp' = [NoOp EXCEPT !.op = "orthTranslateText",
                                      !.word = trim(OrthResult(orthStepper))]
            /\ phase' = "done"
  /\ UNCHANGED <<wordStepper, orthStepper, files, reads, inserted, input, ruleState>>

\* trieWord.addWord(word, phonetic) once the translation has returned: the nodes the
\* result holds are nodes of the dictionary
AddWord(word, phonetic) ==
  /\ phase = "done"
  /\ lastOp.op = "translateText"
  /\ wordStepper' = [wordStepper EXCEPT
                       !.loadedDictionaries[wordStepper.currentLanguageCode] =
                          addWord(@, word, phonetic)]
  /\ inserted' = inserted \cup
       {<<wordStepper.currentLanguageCode, word, o>> : o \in Range(splitCommaSpace(phonetic))}
  /\ lastOp' = [NoOp EXCEPT !.op = "addWord", !.word = word]
  /\ UNCHANGED <<orthStepper, files, reads, phase, input, ruleState>>

\* the steppers by name
Stepper(which) ==
  IF which = "word" THEN wordStepper ELSE orthStepper

\* a call has returned or raised, and the stepper it was made on
Returned(which) ==
  /\ phase \in {"done", "threw"}
  /\ lastOp.op = (IF which = "word" THEN "translateText" ELSE "orthTranslateText")

\* a call on a stepper leaves the stepper after
Leaves(which, after) ==
  IF which = "word"
    THEN wordStepper' = after /\ UNCHANGED orthStepper
    ELSE orthStepper' = after /\ UNCHANGED wordStepper

\* stepper.text = value for a value that is not a string, after a translation
SetText(which, value) ==
  /\ Returned(which)
  /\ ~IsString(value)
  /\ Leaves(which, setText(Stepper(which), value))
  /\ lastOp' = [NoOp EXCEPT !.op = "setText", !.lang = which]
  /\ UNCHANGED <<files, reads, inserted, phase, input, ruleState>>

\* stepper.clear() after a translation
Clear(which) ==
  /\ Returned(which)
  /\ Leaves(which, clear(Stepper(which)))
  /\ lastOp' = [NoOp EXCEPT !.op = "clear", !.lang = which]
  /\ UNCHANGED <<files, reads, inserted, phase, input, ruleState>>

\* stepper.reset() after a translation
Reset(which) ==
  /\ Returned(which)
  /\ Leaves(which, reset(Stepper(which)))
  /\ lastOp' = [NoOp EXCEPT !.op = "reset", !.lang = which]
  /\ UNCHANGED <<files, reads, inserted, phase, input, ruleState>>

\* the caller has made no call on a stepper whose text is not set, yet
TextLeftUnset(which) ==
  /\ Stepper(which).text = Null
  /\ \/ phase \in {"new", "loaded", "attached"} /\ lastOp.op \notin {"run", "translateNonString"}
     \/ lastOp.op \in {"setText", "clear"} /\ lastOp.lang = which

\* stepper.run() while the text is not set: the call raises at its first statement
\* (with the text set, run is the scan of WordRunStep and OrthRunStep)
Run(which) ==
  /\ TextLeftUnset(which)
  /\ Leaves(which, RunRejected(Stepper(which)))
  /\ lastOp' = [NoOp EXCEPT !.op = "run", !.lang = which, !.threw = TRUE]
  /\ UNCHANGED <<files, reads, inserted, phase, input, ruleState>>

\* stepper.translateText(value) for a value that is not a string: the call raises
TranslateNonString(which, value) ==
  /\ TextLeftUnset(which) \/ Returned(which)
  /\ ~IsString(value)
  /\ Leaves(which, TranslateTextRejected(Stepper(which)))
  /\ lastOp' = [NoOp EXCEPT !.op = "translateNonString", !.lang = which, !.word = value,
                            !.threw = TRUE]
  /\ UNCHANGED <<files, reads, inserted, phase, input, ruleState>>

\* the caller reads trieWord.result
Result ==
  /\ phase = "done"
  /\ lastOp.op \in {"translateText", "addWord"}
  /\ lastOp' = [NoOp EXCEPT !.op = "result", !.word = result(wordStepper)]
  /\ UNCHANGED <<wordStepper, orthStepper, files, reads, inserted, phase, input, ruleState>>

\* the caller reads trieWord.resultRaw
ResultRaw ==
  /\ phase = "done"
  /\ lastOp.op \in {"translateText", "addWord"}
  /\ lastOp' = [NoOp EXCEPT !.op = "resultRaw", !.raw = resultRaw(wordStepper)]
  /\ UNCHANGED <<wordStepper, orthStepper, files, reads, inserted, phase, input, ruleState>>

\* the caller reads trieWord.pollyResult
PollyResult ==
  /\ phase = "done"
  /\ lastOp.op \in {"translateText", "addWord"}
  /\ lastOp' = [NoOp EXCEPT !.op = "pollyResult", !.word = pollyResult(wordStepper)]
  /\ UNCHANGED <<wordStepper, orthStepper, files, reads, inserted, phase, input, ruleState>>

Next ==
  \/ LoadDictionary
  \/ \E registration \in Registrations : AddOrthographyStepper(registration)
  \/ \E text \in Texts : TranslateText(text)
  \/ WordRunStep
  \/ WordReturn
  \/ \E text \in Texts : OrthStartTranslateText(text)
  \/ OrthRunStep
  \/ OrthReturn
  \/ \E word \in AddedWords, phonetic \in AddedPhonetics : AddWord(word, phonetic)
  \/ Result
  \/ ResultRaw
  \/ PollyResult
  \/ \E which \in {"word", "orth"}, value \in NonStrings : SetText(which, value)
  \/ \E which \in {"word", "orth"} : Clear(which)
  \/ \E which \in {"word", "orth"} : Reset(which)
  \/ \E which \in {"word", "orth"} : Run(which)
  \/ \E which \in {"word", "orth"}, value \in NonStrings : TranslateNonString(which, value)

Spec ==
  Init /\ [][Next]_vars

\* the calls of one translation, by the word stepper or by the orthography stepper
RunNext ==
  \/ LoadDictionary
  \/ \E registration \in Registrations : AddOrthographyStepper(registration)
  \/ \E text \in Texts : TranslateText(text)
  \/ WordRunStep
  \/ WordReturn
  \/ \E text \in Texts : OrthStartTranslateText(text)
  \/ OrthRunStep
  \/ OrthReturn

\* the condition of the while loop of TrieWordStepper.run
WordLoopRuns ==
  phase = "word" /\ wordStepper.cursor < Len(wordStepper.text)

\* the loop of TrieOrthographyStepper.run is over and translateText has not returned
OrthLoopOver ==
  phase = "orth" /\ orthStepper.cursor >= Len(orthStepper.text)

\* run and translateText are synchronous: a loop that has an iteration to make makes
\* it, and a call whose loop is over returns; WordRunStep is enabled exactly while
\* WordLoopRuns holds and OrthReturn exactly while OrthLoopOver holds, and the weak
\* fairness of the two is written out
SpecRun ==
  /\ Init
  /\ [][RunNext]_vars
  /\ ([]<>~WordLoopRuns \/ []<><<WordRunStep>>_vars)
  /\ WF_vars(WordReturn)
  /\ WF_vars(OrthRunStep)
  /\ ([]<>~OrthLoopOver \/ []<><<OrthReturn>>_vars)

(***************************************************************************)
(* Calls of translate(language, text) one after the other on the two       *)
(* steppers of the module (SpecTranslate).                                 *)
(***************************************************************************)
\* a postprocessor whose rule is anchored at the start of the string
AnchoredPostprocessor ==
  [pre |-> MissingFile,
   post |-> RuleFile(<<RuleLine(<<"e">>, <<"i">>, <<"#">>, <<>>)>>, <<VowelGroup>>)]

TranslateRuleFiles ==
  RuleFiles \cup {AnchoredPostprocessor}

TranslateDictFiles ==
  {NoEntries, OnlyA, CatCategory}

TranslateTexts ==
  {<<"a">>, <<"a", "b">>, <<"b", " ", "a">>, Cat, Cats}

\* the resources of Language are chosen among the files; no other language has any
TranslateInit ==
  /\ wordStepper = FreshWordStepper
  /\ orthStepper = FreshOrthStepper
  /\ \E d \in TranslateDictFiles, m \in MapFiles, r \in TranslateRuleFiles :
       files = [dict |-> [l \in Languages |-> IF l = Language THEN d ELSE MissingFile],
                map |-> [l \in Languages |-> IF l = Language THEN m ELSE MissingFile],
                pre |-> [l \in Languages |-> IF l = Language THEN r.pre ELSE MissingFile],
                post |-> [l \in Languages |-> IF l = Language THEN r.post ELSE MissingFile]]
  /\ reads = 0
  /\ inserted = {}
  /\ lastOp = NoOp
  /\ phase = "idle"
  /\ input = <<>>
  /\ ruleState = NoRuleState

TranslateNext ==
  \E l \in Languages, t \in TranslateTexts : TrieTranslate(l, t)

SpecTranslate ==
  TranslateInit /\ [][TranslateNext]_vars

(***************************************************************************)
(* Claims about the translations (Spec).                                   *)
(***************************************************************************)
\* a translation by the word stepper has returned
WordTranslated ==
  phase = "done" /\ lastOp.op = "translateText"

\* a translation by the orthography stepper itself has returned
OrthTranslated ==
  phase = "done" /\ lastOp.op = "orthTranslateText"

\* the words of the dictionary a stepper has selected
Words(stepper) ==
  {node \in DOMAIN firstCharsLevel(stepper) : Truthy(firstCharsLevel(stepper)[node].word)}

\* C1: with hello -> "/h@'loU/" and world -> "/wOrld/" and no orthography stepper,
\* translateText("Hello world!") returns "h@'loU wOrld!", without the slashes.
C1_HelloWorld ==
  (/\ WordTranslated
   /\ ~wordStepper.orthographyStepper
   /\ files.dict[Language] = HelloWorld
   /\ input = HelloWorldText)
  => lastOp.word = <<"h", "@", "'", "l", "o", "U", " ", "w", "O", "r", "l", "d", "!">>

\* the last index of the run of letters of text that starts at index i (1-based)
RECURSIVE RunEnd(_, _)
RunEnd(text, i) ==
  IF i < Len(text) /\ text[i + 1] \in LetterChars THEN RunEnd(text, i + 1) ELSE i

\* the tokens of text from index i on when a maximal run of letters is a match exactly
\* if it is one of the words, and every other character stands for itself
RECURSIVE WholeWordTokens(_, _, _)
WholeWordTokens(text, i, words) ==
  IF i > Len(text) THEN <<>>
  ELSE IF text[i] \notin LetterChars
    THEN <<StringToken(<<text[i]>>)>> \o WholeWordTokens(text, i + 1, words)
  ELSE LET run == SubSeq(text, i, RunEnd(text, i))
       IN  <<IF run \in words THEN NodeToken(run) ELSE StringToken(Delimited(run))>>
             \o WholeWordTokens(text, RunEnd(text, i) + 1, words)

LetterOnly(words) ==
  \A w \in words : \A n \in DOMAIN w : w[n] \in LetterChars

\* C2: for a dictionary whose words consist of letters only, the word stepper emits a
\* maximal run of letters of the text as a dictionary match if and only if the whole
\* run is a dictionary word ("cat" in "the cat sat", "category" and not "cat" in
\* "category"); without an orthography stepper every other run is emitted as an
\* unmatched word and every non-letter as itself.
C2_LongestWholeWordMatch ==
  (WordTranslated /\ LetterOnly(Words(wordStepper)))
  => LET expected == WholeWordTokens(wordStepper.text, 2, Words(wordStepper))
     IN  /\ Len(wordStepper.result) = Len(expected)
         /\ \A n \in DOMAIN expected :
              /\ wordStepper.result[n].isNode = expected[n].isNode
              /\ wordStepper.result[n].node = expected[n].node
         /\ ~wordStepper.orthographyStepper => wordStepper.result = expected

\* C2 witness: "the cat sat" has been translated with cat and category
C2_Witness ==
  /\ WordTranslated
  /\ ~wordStepper.orthographyStepper
  /\ input = TheCatSat
  /\ Words(wordStepper) = {Cat, Category}
  /\ wordStepper.result =
       <<StringToken(Delimited(<<"t", "h", "e">>)), StringToken(<<" ">>), NodeToken(Cat),
         StringToken(<<" ">>), StringToken(Delimited(<<"s", "a", "t">>)),
         StringToken(<<" ">>)>>

\* C3: whenever the word stepper emits a dictionary match, the match is a span of the
\* text that spells the word, the character before the span is not a letter and the
\* character after it is not a letter.
C3_MatchesAreWholeWords ==
  [][(/\ phase = "word"
      /\ wordStepper'.result # wordStepper.result
      /\ wordStepper'.result[Len(wordStepper'.result)].isNode)
     => LET node == wordStepper'.result[Len(wordStepper'.result)].node
            last == wordStepper.lastResultCursor
            first == last - Len(node) + 1
        IN  /\ first >= 1
            /\ SubSeq(wordStepper.text, first + 1, last + 1) = node
            /\ ~isLetter(CharAt(wordStepper.text, first - 1))
            /\ ~isLetter(CharAt(wordStepper.text, last + 1))]_vars

\* C3 witness: "tomcat" has been translated with cat in the dictionary, and no match
\* was emitted
C3_Witness ==
  /\ WordTranslated
  /\ ~wordStepper.orthographyStepper
  /\ input = Tomcat
  /\ Cat \in Words(wordStepper)
  /\ wordStepper.result = <<StringToken(Delimited(Tomcat)), StringToken(<<" ">>)>>

\* C4 as stated, of both steppers: with cat and category in the trie, the scan of
\* "cats" emits the cat node as a match.
C4_BacktrackInBothSteppers ==
  /\ (WordTranslated /\ input = Cats /\ {Cat, Category} \subseteq Words(wordStepper))
     => NodeToken(Cat) \in Range(wordStepper.result)
  /\ (OrthTranslated /\ input = Cats /\ {Cat, Category} \subseteq Words(orthStepper))
     => NodeToken(Cat) \in Range(orthStepper.result)

\* C4 of the orthography stepper: with cat and category in the trie, the scan of
\* "cats" emits the cat node and then the s; and whenever the walk fails on a
\* character after a word has been passed, the node of the last word passed is
\* emitted and the scan resumes at the character after that word.
C4_OrthographyBacktrack ==
  /\ [](OrthTranslated /\ input = Cats /\ {Cat, Category} \subseteq Words(orthStepper)
          /\ ~(Language \in DOMAIN orthStepper.rulePreprocessors)
        => orthStepper.result = <<StringToken(<<" ">>), NodeToken(Cat),
                                   StringToken(<<"s">>), StringToken(<<" ">>)>>)
  /\ [][(/\ phase = "orth"
         /\ orthStepper.cursor < Len(orthStepper.text)
         /\ ~InLevel(orthStepper, CharAt(orthStepper.text, orthStepper.cursor))
         /\ orthStepper.lastNodeWithResult # Null)
        => /\ orthStepper'.result =
                Append(orthStepper.result, NodeToken(orthStepper.lastNodeWithResult))
           /\ orthStepper'.cursor = orthStepper.lastResultCursor + 1
           /\ orthStepper'.currentLevel = RootLevel
           /\ orthStepper'.lastNodeWithResult = Null]_vars

\* C4 witness: the orthography stepper has scanned "cats" with cat and category
C4_Witness ==
  /\ OrthTranslated
  /\ input = Cats
  /\ Words(orthStepper) = {Cat, Category}
  /\ orthStepper.result = <<StringToken(<<" ">>), NodeToken(Cat),
                            StringToken(<<"s">>), StringToken(<<" ">>)>>
  /\ lastOp.word = <<"k", "@", "t", "s">>

\* no rules are loaded: no rule processor is registered for the language, or both
\* are, each without rules
NoRulesLoaded(stepper) ==
  \/ /\ Language \notin DOMAIN stepper.rulePreprocessors
     /\ Language \notin DOMAIN stepper.rulePostprocessors
  \/ /\ Language \in DOMAIN stepper.rulePreprocessors
     /\ Language \in DOMAIN stepper.rulePostprocessors
     /\ stepper.rulePreprocessors[Language] = <<>>
     /\ stepper.rulePostprocessors[Language] = <<>>

escapeSsmlOnce(str) ==
  Join([n \in DOMAIN str |->
          CASE str[n] = "\"" -> <<"&", "q", "u", "o", "t", ";">>
            [] str[n] = "&" -> <<"&", "a", "m", "p", ";">>
            [] str[n] = "'" -> <<"&", "a", "p", "o", "s", ";">>
            [] str[n] = "<" -> <<"&", "l", "t", ";">>
            [] str[n] = ">" -> <<"&", "g", "t", ";">>
            [] OTHER -> <<str[n]>>])

\* C11: with cat -> "/k@t/" in the dictionary, pollyResult after the translation of
\* "cat & friends" renders the match as a phoneme element with ph='k@t', both slashes
\* stripped, and the ampersand as "&amp;"; and the literals of a result without a
\* match are rendered with every reserved markup character escaped exactly once.
C11_SsmlRendering ==
  /\ (/\ phase = "done"
      /\ lastOp.op = "pollyResult"
      /\ ~wordStepper.orthographyStepper
      /\ files.dict[Language] = CatCategory
      /\ input = CatAndFriends)
     => lastOp.word =
          SpeakOpen \o PhonemeOpen \o <<"k", "@", "t">> \o PhonemeClose
            \o <<" ", "&", "a", "m", "p", ";", " ">>
            \o <<"#", "f", "r", "i", "e", "n", "d", "s", "#", " ">> \o SpeakClose
  /\ (/\ phase = "done"
      /\ lastOp.op = "pollyResult"
      /\ \A n \in DOMAIN wordStepper.result : ~wordStepper.result[n].isNode)
     => lastOp.word = SpeakOpen \o escapeSsmlOnce(result(wordStepper)) \o SpeakClose

\* the phonetic strings given for a word, in the order of the calls of addWord: the
\* lines of the dictionary file, then the string added by hand if one was
RECURSIVE FileInsertions(_, _)
FileInsertions(lines, word) ==
  IF lines = <<>> THEN <<>>
  ELSE (IF toLowerCase(Head(lines).word) = word /\ Head(lines).word # <<>>
           /\ Head(lines).phonetic # <<>>
          THEN splitCommaSpace(Head(lines).phonetic) ELSE <<>>)
       \o FileInsertions(Tail(lines), word)

HandInsertions(word) ==
  IF \E p \in AddedPhonetics : <<Language, word, Head(splitCommaSpace(p))>> \in inserted
    THEN splitCommaSpace(CHOOSE p \in AddedPhonetics :
                           <<Language, word, Head(splitCommaSpace(p))>> \in inserted)
    ELSE <<>>

Variants(word) ==
  FirstOccurrences(FileInsertions(files.dict[Language].lines, word) \o HandInsertions(word))

\* C14: the string that result joins holds, for every matched token, the variant that
\* was inserted first for its word, whatever was inserted for the word later, also
\* after the translation; resultRaw gives for the token all the variants in the order
\* of their insertion, together with the word, and for a literal the literal.
C14_FirstVariantAndRaw ==
  /\ (phase = "done" /\ lastOp.op = "result")
     => lastOp.word =
          Join([n \in DOMAIN wordStepper.result |->
                  IF wordStepper.result[n].isNode
                    THEN Head(FileInsertions(files.dict[Language].lines,
                                             wordStepper.result[n].node))
                    ELSE wordStepper.result[n].str])
  /\ (phase = "done" /\ lastOp.op = "resultRaw")
     => /\ Len(lastOp.raw) = Len(wordStepper.result)
        /\ \A n \in DOMAIN wordStepper.result :
             IF wordStepper.result[n].isNode
               THEN /\ lastOp.raw[n].isNode
                    /\ lastOp.raw[n].word = wordStepper.result[n].node
                    /\ lastOp.raw[n].phonetics = Variants(wordStepper.result[n].node)
               ELSE /\ ~lastOp.raw[n].isNode
                    /\ lastOp.raw[n].char = wordStepper.result[n].str

\* C14 witness: "ab", inserted with two variants, was matched, a third variant was
\* added to it, and the joined result still holds the first
C14_Witness ==
  /\ phase = "done"
  /\ lastOp.op = "result"
  /\ input = <<"a", "b">>
  /\ files.dict[Language] = AbAndB
  /\ wordStepper.result = <<NodeToken(<<"a", "b">>), StringToken(<<" ">>)>>
  /\ firstCharsLevel(wordStepper)[<<"a", "b">>].phonetics =
       <<(<<"/", "a", "b", "/">>), (<<"/", "@", "b", "/">>), (<<"/", "x", "/">>)>>
  /\ lastOp.word = <<"/", "a", "b", "/", " ">>

(***************************************************************************)
(* Claims about the calls that are rejected and about clear (Spec).        *)
(***************************************************************************)
\* C12: run() on a stepper whose text is not set (never set, set to a value that is
\* not a string, or cleared) raises, translateText of a value that is not a string
\* raises, and both leave the two steppers, cursor, result, candidate and loaded
\* dictionaries included, exactly as they were.
C12_RejectedCallsChangeNothing ==
  [][(lastOp'.op \in {"run", "translateNonString"} /\ lastOp' # lastOp)
     => /\ lastOp'.threw
        /\ lastOp'.op = "run" => Stepper(lastOp'.lang).text = Null
        /\ lastOp'.op = "translateNonString" => ~IsString(lastOp'.word)
        /\ wordStepper' = wordStepper
        /\ orthStepper' = orthStepper]_vars

\* C12 witness: run() was called on the word stepper after a translation had left a
\* result and the text was then set to a value that is not a string
C12_Witness ==
  /\ lastOp.op = "run"
  /\ lastOp.lang = "word"
  /\ lastOp.threw
  /\ wordStepper.text = Null
  /\ wordStepper.cursor > 0
  /\ wordStepper.result # <<>>
  /\ wordStepper.lastNodeWithResult # Null

\* the scan state of a stepper: everything but its dictionaries, its language and
\* what is attached to it; the current level counts as reset when it is the root
\* level of the selected dictionary
ScanState(stepper, isWord) ==
  [currentLevel |-> IF stepper.currentLevel = RootLevel THEN Null ELSE stepper.currentLevel,
   lastNodeWithResult |-> stepper.lastNodeWithResult,
   foundChars |-> stepper.foundChars,
   lastResultCursor |-> stepper.lastResultCursor,
   currentNode |-> stepper.currentNode,
   cursor |-> stepper.cursor,
   result |-> stepper.result,
   text |-> stepper.text,
   lastAddedCursor |-> stepper.lastAddedCursor,
   currentWord |-> IF isWord THEN stepper.currentWord ELSE <<>>]

\* C18: after clear() the scan state of the stepper (text, cursor, result, current
\* level, candidate and its cursor, match-in-progress flag, last-emission cursor,
\* pending word) is that of a stepper just constructed, and the loaded dictionaries
\* and the current language are as before the call.
C18_ClearIsFullReset ==
  [][(lastOp'.op = "clear" /\ lastOp' # lastOp)
     => /\ lastOp'.lang = "word"
           => /\ ScanState(wordStepper', TRUE) = ScanState(FreshWordStepper, TRUE)
              /\ wordStepper'.loadedDictionaries = wordStepper.loadedDictionaries
              /\ wordStepper'.currentLanguageCode = wordStepper.currentLanguageCode
        /\ lastOp'.lang = "orth"
           => /\ ScanState(orthStepper', FALSE) = ScanState(FreshOrthStepper, FALSE)
              /\ orthStepper'.loadedDictionaries = orthStepper.loadedDictionaries
              /\ orthStepper'.currentLanguageCode = orthStepper.currentLanguageCode]_vars

(***************************************************************************)
(* Claims about the rule processors of the orthography stepper (Spec).     *)
(***************************************************************************)
\* C17: translateText of the orthography stepper completes without error whichever of
\* the two processors are registered for the language; the text scanned is the padded
\* word after the preprocessor exactly when a preprocessor is registered, and the
\* value returned is the joined result after the postprocessor exactly when a
\* postprocessor is registered.
C17_ProcessorsIndependent ==
  (phase \in {"done", "threw"} /\ lastOp.op = "orthTranslateText")
  => /\ phase = "done"
     /\ orthStepper.text =
          (IF Language \in DOMAIN orthStepper.rulePreprocessors
             THEN process(orthStepper.rulePreprocessors[Language], Padded(input))
             ELSE Padded(input))
     /\ lastOp.word =
          trim(IF Language \in DOMAIN orthStepper.rulePostprocessors
                 THEN process(orthStepper.rulePostprocessors[Language], result(orthStepper))
                 ELSE result(orthStepper))

(***************************************************************************)
(* Claims about the loop of run (SpecRun).                                 *)
(***************************************************************************)
\* where the match attempt in progress started: the walk has consumed one character
\* for every level below the root
AttemptStart(stepper) ==
  stepper.cursor - Len(stepper.currentLevel)

\* a number that bounds the iterations left: it is at most (L + 1) * (L + 1) for a text
\* of length L
Rank(stepper) ==
  (Len(stepper.text) - AttemptStart(stepper)) * (Len(stepper.text) + 1)
    + (Len(stepper.text) - stepper.cursor)

\* an iteration of run took the stepper from before to after
Progresses(before, after) ==
  /\ \/ after.cursor = before.cursor + 1
     \/ /\ before.lastNodeWithResult # Null
        /\ after.result = Append(before.result, NodeToken(before.lastNodeWithResult))
        /\ after.cursor = before.lastResultCursor + 1
        /\ after.cursor > AttemptStart(before)
  /\ after.cursor <= Len(after.text)
  /\ after.currentLevel = RootLevel => AttemptStart(after) > AttemptStart(before)
  /\ after.currentLevel # RootLevel => AttemptStart(after) = AttemptStart(before)
  /\ Rank(after) < Rank(before)
  /\ Rank(after) >= 0

\* C19: every iteration of run, in both steppers, either moves the cursor forward by
\* one or emits the candidate and goes back to a position after the start of the
\* attempt that ended; the starts of successive attempts increase; a number bounded
\* by the square of the text length decreases with every iteration; and every run that
\* has started comes to its end, by returning or by raising; an iteration never leaves
\* the stepper as it found it.
C19_RunTerminates ==
  /\ [][/\ (phase = "word" /\ phase' = "word" /\ wordStepper' # wordStepper)
           => Progresses(wordStepper, wordStepper')
        /\ (phase = "orth" /\ phase' = "orth" /\ orthStepper' # orthStepper)
           => Progresses(orthStepper, orthStepper')]_vars
  /\ [](WordLoopRuns => \E iteration \in {WordIterate(wordStepper, orthStepper)} :
                           iteration.threw \/ iteration.word # wordStepper)
  /\ [](phase = "orth" /\ orthStepper.cursor < Len(orthStepper.text)
          => OrthIterate(orthStepper) # orthStepper)
  /\ (phase = "word") ~> (phase \in {"done", "threw"})
  /\ (phase = "orth") ~> (phase \in {"done", "threw"})

\* C19 witness: the scan of "cats" by the orthography stepper has ended after it went
\* back from the s to emit cat
C19_Witness ==
  /\ OrthTranslated
  /\ input = Cats
  /\ Words(orthStepper) = {Cat, Category}
  /\ NodeToken(Cat) \in Range(orthStepper.result)
  /\ orthStepper.cursor = Len(orthStepper.text)

(***************************************************************************)
(* Claims about the spans that match no word (Spec).                       *)
(***************************************************************************)
\* the last index of the maximal run of letters of text that holds index i (1-based)
RECURSIVE LetterRunEnd(_, _)
LetterRunEnd(text, i) ==
  IF i < Len(text) /\ isLetter(text[i + 1]) THEN LetterRunEnd(text, i + 1) ELSE i

\* the orthography stepper as it can be before one of its translations: clear leaves
\* every field but the last-emission cursor as in a new stepper
OrthBefore(stepper) ==
  {[stepper EXCEPT !.lastAddedCursor = c] :
     c \in {UndefinedCursor} \cup (0..(Len(stepper.text) + MaxTextLen + 2))}

\* what a run of letters that is no match is emitted as: the run handed whole to the
\* orthography stepper when one is attached, the run itself when none is
UnmatchedWordTokens(ws, os, run) ==
  IF ws.orthographyStepper
    THEN {StringToken(Delimited(OrthTranslateText(before, run).value)) :
            before \in OrthBefore(os)}
    ELSE {StringToken(Delimited(run))}

\* the tokens from the k-th on render the text from index i on: a match spells the
\* text where it stands, a non-letter outside a match is one literal token, and a
\* maximal run of letters outside a match is one token
RECURSIVE SpansInOrder(_, _, _, _)
SpansInOrder(ws, os, k, i) ==
  IF k > Len(ws.result) THEN i > Len(ws.text)
  ELSE IF i > Len(ws.text) THEN FALSE
  ELSE IF ws.result[k].isNode
    THEN /\ i + Len(ws.result[k].node) - 1 <= Len(ws.text)
         /\ SubSeq(ws.text, i, i + Len(ws.result[k].node) - 1) = ws.result[k].node
         /\ SpansInOrder(ws, os, k + 1, i + Len(ws.result[k].node))
  ELSE IF ~isLetter(ws.text[i])
    THEN /\ ws.result[k] = StringToken(<<ws.text[i]>>)
         /\ SpansInOrder(ws, os, k + 1, i + 1)
  ELSE /\ ws.result[k] \in UnmatchedWordTokens(ws, os,
                              SubSeq(ws.text, i, LetterRunEnd(ws.text, i)))
       /\ SpansInOrder(ws, os, k + 1, LetterRunEnd(ws.text, i) + 1)

\* C20: when translateText of the word stepper has returned, the tokens of result
\* render the text after its leading padding in order and without a gap: each match
\* stands where the text spells it, each non-letter outside a match is its own
\* literal token, and each maximal run of letters outside a match is one token, the
\* run between '#' delimiters, handed whole to the orthography stepper when one is
\* attached.
C20_UnmatchedSpans ==
  WordTranslated => SpansInOrder(wordStepper, orthStepper, 1, 2)

(***************************************************************************)
(* Claims about translate (SpecTranslate).                                 *)
(***************************************************************************)
\* translate(language, text) as the first call on two new steppers
FirstTranslate(language, text) ==
  translate(FreshWordStepper, FreshOrthStepper, files, language, text)

\* C21: whatever translate calls came before, translate(language, text) returns what
\* it returns as the first call on new steppers (and raises if that call raises).
C21_TranslateHistoryIndependent ==
  [][\A l \in Languages, t \in TranslateTexts :
       TrieTranslate(l, t)
       => /\ lastOp'.threw = FirstTranslate(l, t).threw
          /\ lastOp'.word = FirstTranslate(l, t).value]_vars

(***************************************************************************)
(* Claims about the candidate and the step back (Spec).                    *)
(***************************************************************************)
\* C22: when translateText of either stepper has returned, no candidate is left
\* recorded: each candidate that run recorded and did not replace by a longer one was
\* appended to result, also when the text ended while the walk was on a longer path.
C22_CandidateAlwaysEmitted ==
  /\ WordTranslated => wordStepper.lastNodeWithResult = Null
  /\ OrthTranslated => orthStepper.lastNodeWithResult = Null

\* the step back of run: the character under the cursor does not continue the path
\* and a candidate is recorded
StepsBack(stepper) ==
  /\ stepper.cursor < Len(stepper.text)
  /\ ~InLevel(stepper, CharAt(stepper.text, stepper.cursor))
  /\ stepper.lastNodeWithResult # Null

\* what the step back leaves of the stepper before
SteppedBack(before, after) ==
  /\ after.result = Append(before.result, NodeToken(before.lastNodeWithResult))
  /\ after.cursor = before.lastResultCursor + 1
  /\ after.cursor <= before.cursor
  /\ after.currentLevel = RootLevel
  /\ after.lastNodeWithResult = Null
  /\ ~after.foundChars
  /\ after.text = before.text

\* C23: in both steppers, an iteration of run on a character that does not continue
\* the path while a candidate is recorded appends the node of the candidate and
\* nothing else to result, sets the cursor to the position after the candidate, which
\* is not beyond the cursor before, returns to the root level and clears the candidate
\* and the flag of the match in progress; the text is as before, so that the
\* characters after the candidate are scanned again from the root.
C23_StepBack ==
  [][/\ (phase = "word" /\ StepsBack(wordStepper))
        => SteppedBack(wordStepper, wordStepper')
     /\ (phase = "orth" /\ StepsBack(orthStepper))
        => SteppedBack(orthStepper, orthStepper')]_vars

\* C23 witness: the word stepper has stepped back from the second a of "a a" to the
\* space after the first, with a and "a b" in the dictionary
C23_Witness ==
  /\ phase = "word"
  /\ input = <<"a", " ", "a">>
  /\ files.dict[Language] = AAndASpaceB
  /\ wordStepper.result = <<NodeToken(<<"a">>)>>
  /\ wordStepper.cursor = 2
  /\ wordStepper.currentLevel = RootLevel

(***************************************************************************)
(* Claims about the scan of the orthography stepper (Spec).                *)
(***************************************************************************)
\* the entries of the map that the text spells from index i on (1-based)
EntriesAt(text, i, words) ==
  {w \in words : i + Len(w) - 1 <= Len(text) /\ SubSeq(text, i, i + Len(w) - 1) = w}

Longest(words) ==
  CHOOSE w \in words : \A v \in words : Len(v) <= Len(w)

\* the leftmost-longest tokenisation of the text from index i on: the longest entry
\* that starts at i, a literal of one character where none starts
RECURSIVE LeftmostLongest(_, _, _)
LeftmostLongest(text, i, words) ==
  IF i > Len(text) THEN <<>>
  ELSE IF EntriesAt(text, i, words) = {}
    THEN <<StringToken(<<text[i]>>)>> \o LeftmostLongest(text, i + 1, words)
  ELSE <<NodeToken(Longest(EntriesAt(text, i, words)))>>
         \o LeftmostLongest(text, i + Len(Longest(EntriesAt(text, i, words))), words)

\* C24: when translateText of the orthography stepper has returned, its tokens are
\* the leftmost-longest tokenisation of its (preprocessed) text against the map: a
\* character is a literal only where no entry of the map starts. The leading padding
\* space may be missing from the tokens.
C24_LeftmostLongest ==
  OrthTranslated
  => \/ orthStepper.result = LeftmostLongest(orthStepper.text, 1, Words(orthStepper))
     \/ orthStepper.result = LeftmostLongest(orthStepper.text, 2, Words(orthStepper))

(***************************************************************************)
(* Claims about the construction and the application of a rule (SpecRule). *)
(***************************************************************************)
\* a context with every reference to a character group replaced by its expansion
RECURSIVE GroupsExpanded(_, _)
GroupsExpanded(context, charGroups) ==
  IF charGroups = <<>> THEN context
  ELSE GroupsExpanded(ReplaceEveryToken(context, Head(charGroups).key, Head(charGroups).value),
                      Tail(charGroups))

\* the pattern that a context of a rule line stands for
Compiled(context, charGroups, anchor) ==
  IF Truthy(context)
    THEN ReplaceEveryToken(GroupsExpanded(context, charGroups), "#", <<anchor>>)
    ELSE <<>>

\* C25: whatever the character groups of the language, none included, the prefix of
\* every rule is the prefix of its line with the group references expanded and '#'
\* turned into '^', the suffix likewise with '$', and a missing prefix or suffix is
\* the empty pattern.
C25_BoundaryAnchors ==
  \A n \in DOMAIN ruleState.rules :
    /\ ruleState.rules[n].prefix
         = Compiled(ruleState.lines[n].prefix, ruleState.charGroups, "^")
    /\ ruleState.rules[n].suffix
         = Compiled(ruleState.lines[n].suffix, ruleState.charGroups, "$")

(***************************************************************************)
(* Claims about the rule processors of translate (SpecTranslate).          *)
(***************************************************************************)
\* both rule processors of the language are registered with the stepper
ProcessorsRegistered(stepper, language) ==
  /\ language \in DOMAIN stepper.rulePreprocessors
  /\ language \in DOMAIN stepper.rulePostprocessors

\* C26: a translate call for a language whose rule processors are registered loads
\* no rule file and leaves the two processors of the language as they are.
C26_RuleProcessorsCached ==
  [][\A l \in Languages, t \in TranslateTexts :
       (TrieTranslate(l, t) /\ ProcessorsRegistered(orthStepper, l))
       => /\ lastOp'.ruleReads = 0
          /\ orthStepper'.rulePreprocessors[l] = orthStepper.rulePreprocessors[l]
          /\ orthStepper'.rulePostprocessors[l] = orthStepper.rulePostprocessors[l]]_vars

(***************************************************************************)
(* Claims about what a scan leaves alone (Spec).                           *)
(***************************************************************************)
\* a step of run or translateText of one of the steppers: the call starts, makes an
\* iteration, returns or raises
ScanStep ==
  \/ phase \in {"word", "orth"}
  \/ phase' \in {"word", "orth"}
  \/ lastOp'.op \in {"run", "translateNonString"}

\* C27: no step of run or translateText of either stepper changes a loaded dictionary
\* of the word stepper or of the orthography stepper, or the language either has
\* selected.
C27_ScanReadsOnly ==
  [][ScanStep
     => /\ wordStepper'.loadedDictionaries = wordStepper.loadedDictionaries
        /\ orthStepper'.loadedDictionaries = orthStepper.loadedDictionaries
        /\ wordStepper'.currentLanguageCode = wordStepper.currentLanguageCode
        /\ orthStepper'.currentLanguageCode = orthStepper.currentLanguageCode]_vars

\* C27 witness: "cats" has been translated with cat in the dictionary and cat in the
\* map of the attached orthography stepper, which translated the word
C27_Witness ==
  /\ WordTranslated
  /\ wordStepper.orthographyStepper
  /\ input = Cats
  /\ Words(wordStepper) = {Cat, Category}
  /\ Words(orthStepper) = {Cat, Category}
  /\ lastOp.word = <<"#", "k", "@", "t", "s", "#">>

(***************************************************************************)
(* One rule applied to one word (SpecApply): a rule is built from a line   *)
(* and the character groups, and apply is called with a word.              *)
(***************************************************************************)
ApplyRuleLines ==
  RuleLines \cup {RuleLine(<<"a">>, <<"e">>, <<>>, <<"a">>)}

ApplyInit ==
  /\ wordStepper = FreshWordStepper
  /\ orthStepper = FreshOrthStepper
  /\ files = [dict |-> NoRuleFiles, map |-> NoRuleFiles, pre |-> NoRuleFiles,
              post |-> NoRuleFiles]
  /\ reads = 0
  /\ inserted = {}
  /\ lastOp = NoOp
  /\ phase = "idle"
  /\ input = <<>>
  /\ \E line \in ApplyRuleLines, groups \in CharGroupSets,
        word \in SeqsUpTo(RuleAlphabet, MaxRuleWordLen) :
       ruleState = [lines |-> <<line>>,
                    charGroups |-> groups,
                    rules |-> <<Rule(line, groups)>>,
                    word |-> word,
                    index |-> 0,
                    acc |-> word]

ApplyNext ==
  RuleApplyStep

SpecApply ==
  ApplyInit /\ [][ApplyNext]_vars

(***************************************************************************)
(* Claims about the pass of a rule over a word (SpecApply)                 *)
(***************************************************************************)
\* where the match of the pattern that begins at index at ends
MatchEndAt(ways, word, at) ==
  MatchEnd(ways[FirstWayAt(ways, word, at)], 1, word, at)

\* the indexes of word at which the pattern matches
MatchesOf(ways, word) ==
  {at \in 0..Len(word) : FirstWayAt(ways, word, at) # 0}

\* the matches a pass from the left takes: no two overlap, and a place where the
\* pattern matches is left out only when a match taken before it runs over it
NonOverlappingMatches(ways, word) ==
  CHOOSE S \in SUBSET MatchesOf(ways, word) :
    /\ \A s \in S : \A t \in S : s < t => MatchEndAt(ways, word, s) <= t
    /\ \A at \in MatchesOf(ways, word) \ S :
         \E s \in S : s < at /\ at < MatchEndAt(ways, word, s)

\* the word from index pos on, with each match of taken given to the replacer once
\* and every other character copied
RECURSIVE PassFrom(_, _, _, _, _)
PassFrom(rule, ways, word, taken, pos) ==
  IF pos >= Len(word) THEN <<>>
  ELSE IF pos \in taken
    THEN Replacer(rule, Capture(ways[FirstWayAt(ways, word, pos)], 1, word, pos),
                        Capture(ways[FirstWayAt(ways, word, pos)], 3, word, pos))
           \o PassFrom(rule, ways, word, taken, MatchEndAt(ways, word, pos))
    ELSE <<CharAt(word, pos)>> \o PassFrom(rule, ways, word, taken, pos + 1)

\* C30: apply replaces every match of a pass from the left in which no two matches
\* overlap and copies the rest of the word, without a second look at what it put in;
\* it leaves the rule as it was, and the rule applied to the same word again gives
\* the same result.
C30_SinglePass ==
  [][ruleState'.index = ruleState.index + 1
     => /\ \A rule \in {ruleState.rules[ruleState'.index]} :
             \A ways \in {Alternatives(regex(rule), 1, Len(regex(rule)))} :
               \A taken \in {NonOverlappingMatches(ways, ruleState.acc)} :
                 ruleState'.acc = PassFrom(rule, ways, ruleState.acc, taken, 0)
        /\ ruleState'.rules = ruleState.rules
        /\ apply(ruleState'.rules[ruleState'.index], ruleState.acc) = ruleState'.acc
     ]_vars

\* C30 witness: a -> e / _a was applied to aaa: the match at the second a overlaps
\* the first and is not taken, and the result eaa still holds a match
C30_Witness ==
  /\ ruleState.index = 1
  /\ ruleState.lines[1] = RuleLine(<<"a">>, <<"e">>, <<>>, <<"a">>)
  /\ ruleState.word = <<"a", "a", "a">>
  /\ ruleState.acc = <<"e", "a", "a">>
  /\ apply(ruleState.rules[1], ruleState.acc) # ruleState.acc

(***************************************************************************)
(* Claims about reset (Spec)                                               *)
(***************************************************************************)
\* the fields of a stepper that reset does not assign
KeptByReset(stepper) ==
  [f \in DOMAIN stepper \ {"currentLevel", "lastNodeWithResult", "foundChars"}
     |-> stepper[f]]

\* C31: reset sets the current level to the root of the selected dictionary, clears
\* the candidate and the flag of a match in progress, and leaves the cursor, the
\* result, the text, the cursor of the last emission, every dictionary and the other
\* stepper as they are.
C31_SoftReset ==
  [][\A which \in {"word", "orth"} :
       (lastOp'.op = "reset" /\ lastOp'.lang = which)
         => /\ HasFirstCharsLevel(Stepper(which))
                 => Stepper(which)'.currentLevel = RootLevel
            /\ Stepper(which)'.lastNodeWithResult = Null
            /\ ~Stepper(which)'.foundChars
            /\ KeptByReset(Stepper(which)') = KeptByReset(Stepper(which))
            /\ which = "word" => orthStepper' = orthStepper
            /\ which = "orth" => wordStepper' = wordStepper
     ]_vars

\* C31 witness: reset was called on the word stepper that had returned with a
\* candidate recorded below the root, and the cursor and the text are as the scan
\* left them
C31_Witness ==
  /\ lastOp.op = "reset"
  /\ lastOp.lang = "word"
  /\ wordStepper.text = <<" ", "a", " ">>
  /\ wordStepper.cursor = 3
  /\ wordStepper.lastResultCursor = 1
  /\ wordStepper.currentLevel = RootLevel
  /\ wordStepper.lastNodeWithResult = Null
  /\ ~wordStepper.foundChars

(***************************************************************************)
(* Claims about what a scan accounts for (Spec)                            *)
(***************************************************************************)
\* the tokens of the word stepper from the k-th on account for the text from index
\* i on: a match spells the text where it stands, a non-letter is one literal token,
\* and some letters in a row are one token of an unmatched word
RECURSIVE WordAccounts(_, _, _, _)
WordAccounts(ws, os, k, i) ==
  IF k > Len(ws.result) THEN i > Len(ws.text)
  ELSE IF i > Len(ws.text) THEN FALSE
  ELSE IF ws.result[k].isNode
    THEN /\ i + Len(ws.result[k].node) - 1 <= Len(ws.text)
         /\ SubSeq(ws.text, i, i + Len(ws.result[k].node) - 1) = ws.result[k].node
         /\ WordAccounts(ws, os, k + 1, i + Len(ws.result[k].node))
  ELSE IF ~isLetter(ws.text[i])
    THEN /\ ws.result[k] = StringToken(<<ws.text[i]>>)
         /\ WordAccounts(ws, os, k + 1, i + 1)
  ELSE \E j \in i..LetterRunEnd(ws.text, i) :
         /\ ws.result[k] \in UnmatchedWordTokens(ws, os, SubSeq(ws.text, i, j))
         /\ WordAccounts(ws, os, k + 1, j + 1)

\* the tokens of the orthography stepper from the k-th on account for the text from
\* index i on: a match spells the text where it stands, any other character is one
\* literal token
RECURSIVE OrthAccounts(_, _, _)
OrthAccounts(os, k, i) ==
  IF k > Len(os.result) THEN i > Len(os.text)
  ELSE IF i > Len(os.text) THEN FALSE
  ELSE IF os.result[k].isNode
    THEN /\ i + Len(os.result[k].node) - 1 <= Len(os.text)
         /\ SubSeq(os.text, i, i + Len(os.result[k].node) - 1) = os.result[k].node
         /\ OrthAccounts(os, k + 1, i + Len(os.result[k].node))
  ELSE /\ os.result[k] = StringToken(<<os.text[i]>>)
       /\ OrthAccounts(os, k + 1, i + 1)

\* nothing that the scan has read is held back in the stepper
NothingPending(stepper) ==
  /\ stepper.lastNodeWithResult = Null
  /\ ~stepper.foundChars

\* C32: when translateText has returned, in both steppers, the tokens of result
\* account for every character of the padded text after the leading space once and
\* in order, as part of a match, as a literal or as part of an unmatched word, and
\* neither a candidate nor a walked span is left in the stepper.
C32_NoInputLost ==
  /\ WordTranslated
       => /\ WordAccounts(wordStepper, orthStepper, 1, 2)
          /\ NothingPending(wordStepper)
          /\ wordStepper.currentWord = <<>>
  /\ OrthTranslated
       => /\ \/ OrthAccounts(orthStepper, 1, 1)
             \/ OrthAccounts(orthStepper, 1, 2)
          /\ NothingPending(orthStepper)

(***************************************************************************)
(* The word stepper alone on dictionaries with entries of several words    *)
(* (SpecPhrases): the dictionary is loaded and a text is translated, one   *)
(* iteration of run at a time.                                             *)
(***************************************************************************)
ASpaceAAndB ==
  File(<<Line(<<"a", " ", "a">>, <<"/", "a", " ", "a", "/">>),
         Line(<<"b">>, <<"/", "b", "/">>)>>)

SpaceAb ==
  File(<<Line(<<" ", "a", "b">>, <<"/", "a", "b", "/">>)>>)

PhraseDictFiles ==
  {AAndASpaceB, ASpaceAAndB, SpaceAb}

PhraseTexts ==
  SeqsUpTo({"a", "b", " "}, MaxTextLen)

PhraseInit ==
  /\ wordStepper = FreshWordStepper
  /\ orthStepper = FreshOrthStepper
  /\ \E d \in PhraseDictFiles :
       files = [dict |-> [l \in Languages |-> IF l = Language THEN d ELSE MissingFile],
                map |-> [l \in Languages |-> MissingFile],
                pre |-> [l \in Languages |-> MissingFile],
                post |-> [l \in Languages |-> MissingFile]]
  /\ reads = 0
  /\ inserted = {}
  /\ lastOp = NoOp
  /\ phase = "new"
  /\ input = <<>>
  /\ ruleState = NoRuleState

PhraseNext ==
  \/ LoadDictionary
  \/ \E text \in PhraseTexts : TranslateText(text)
  \/ WordRunStep
  \/ WordReturn

SpecPhrases ==
  PhraseInit /\ [][PhraseNext]_vars

(***************************************************************************)
(* Claims about a word after an entry of several words that dead-ends      *)
(* (SpecPhrases)                                                           *)
(***************************************************************************)
\* the indexes of text (1-based) at which word stands between non-letters
StandsAlone(text, word) ==
  {i \in 1..(Len(text) - Len(word) + 1) :
     /\ SubSeq(text, i, i + Len(word) - 1) = word
     /\ i > 1 => ~isLetter(text[i - 1])
     /\ i + Len(word) <= Len(text) => ~isLetter(text[i + Len(word)])}

\* the characters of the text that a token stands for, without an orthography
\* stepper: the word of a match, the word between the delimiters, one literal
SpanOf(token) ==
  IF token.isNode THEN Len(token.node)
  ELSE IF Len(token.str) = 1 THEN 1
  ELSE Len(token.str) - 2

\* the index of the text (1-based) at which the k-th token of result begins; the
\* leading space of the text is not emitted
RECURSIVE TokenStart(_, _)
TokenStart(tokens, k) ==
  IF k = 1 THEN 2 ELSE TokenStart(tokens, k - 1) + SpanOf(tokens[k - 1])

\* the characters i .. i + len - 1 of the text were emitted within one match
InMatch(tokens, i, len) ==
  \E k \in DOMAIN tokens :
    /\ tokens[k].isNode
    /\ TokenStart(tokens, k) <= i
    /\ i + len <= TokenStart(tokens, k) + Len(tokens[k].node)

\* C33: when translateText of the word stepper has returned with nothing pending,
\* every entry of one word that stands in the text between non-letters was emitted
\* as a match, or within the match of a longer entry; so also b in the text "a b"
\* with the entries "a a" and b, where the scan reaches b while it walks "a a".
C33_WordAfterDeadEnd ==
  (WordTranslated /\ NothingPending(wordStepper))
    => \A w \in {v \in Words(wordStepper) : \A n \in DOMAIN v : isLetter(v[n])} :
         \A i \in StandsAlone(wordStepper.text, w) :
           InMatch(wordStepper.result, i, Len(w))

(***************************************************************************)
(* The orthography stepper used for one word after the other (SpecCycles): *)
(* the map is loaded and the rule processors are added, then each word is  *)
(* translated by translateText, one iteration of run at a time, and the    *)
(* stepper is cleared for the next word.                                   *)
(***************************************************************************)
CycleWords ==
  {<<"a">>, <<"b">>, <<"a", "b">>, Cat}

AnchoredAtEnd ==
  [pre |-> MissingFile,
   post |-> RuleFile(<<RuleLine(<<"e">>, <<"i">>, <<>>, <<"#">>)>>, <<VowelGroup>>)]

AnchoredPreprocessor ==
  [pre |-> RuleFile(<<RuleLine(<<"a">>, <<"b">>, <<"#">>, <<>>)>>, <<VowelGroup>>),
   post |-> MissingFile]

CycleRuleFiles ==
  TranslateRuleFiles \cup {AnchoredAtEnd, AnchoredPreprocessor}

CycleInit ==
  /\ wordStepper = FreshWordStepper
  /\ orthStepper = FreshOrthStepper
  /\ \E m \in MapFiles, r \in CycleRuleFiles :
       files = [dict |-> [l \in Languages |-> IF l = Language THEN NoEntries ELSE MissingFile],
                map |-> [l \in Languages |-> IF l = Language THEN m ELSE MissingFile],
                pre |-> [l \in Languages |-> IF l = Language THEN r.pre ELSE MissingFile],
                post |-> [l \in Languages |-> IF l = Language THEN r.post ELSE MissingFile]]
  /\ reads = 0
  /\ inserted = {}
  /\ lastOp = NoOp
  /\ phase = "new"
  /\ input = <<>>
  /\ ruleState = NoRuleState

\* trieOrthography.clear() after translateText has returned, before the next word
OrthClear ==
  /\ OrthTranslated
  /\ orthStepper' = clear(orthStepper)
  /\ lastOp' = [NoOp EXCEPT !.op = "clear", !.lang = "orth"]
  /\ phase' = "attached"
  /\ UNCHANGED <<wordStepper, files, reads, inserted, input, ruleState>>

CycleNext ==
  \/ LoadDictionary
  \/ \E registration \in Registrations : AddOrthographyStepper(registration)
  \/ \E word \in CycleWords : OrthStartTranslateText(word)
  \/ OrthRunStep
  \/ OrthReturn
  \/ OrthClear

SpecCycles ==
  CycleInit /\ [][CycleNext]_vars

(***************************************************************************)
(* Claims about the orthography stepper from word to word (SpecCycles)     *)
(***************************************************************************)
\* the orthography stepper as it was when its map and its rule processors had been
\* given to it and it had translated nothing
FirstUse(stepper) ==
  CHOOSE first \in {Registered(OrthLoadDictionary(FreshOrthStepper, Language,
                                                  files.map[Language]), registration) :
                      registration \in Registrations} :
    /\ first.rulePreprocessors = stepper.rulePreprocessors
    /\ first.rulePostprocessors = stepper.rulePostprocessors

\* C34: when translateText of the orthography stepper has returned for a word, after
\* any number of words translated and cleared before, it has returned the string it
\* returns for that word as the first word of the stepper, and the string that the
\* result getter hands to the postprocessor is the same as well.
C34_OrthHistoryIndependent ==
  OrthTranslated
    => \A first \in {OrthTranslateText(FirstUse(orthStepper), input)} :
         /\ ~first.threw
         /\ lastOp.word = first.value
         /\ result(orthStepper) = result(first.stepper)

(***************************************************************************)
(* Claims about what a rule puts in for a match (SpecApply)                *)
(***************************************************************************)
\* the word from index pos on, with each match of taken replaced by the text that
\* the prefix matched, the replacement and the text that the suffix matched, and
\* every other character copied
RECURSIVE PassKeepingContext(_, _, _, _, _)
PassKeepingContext(rule, ways, word, taken, pos) ==
  IF pos >= Len(word) THEN <<>>
  ELSE IF pos \in taken
    THEN Capture(ways[FirstWayAt(ways, word, pos)], 1, word, pos)
           \o rule.replacement
           \o Capture(ways[FirstWayAt(ways, word, pos)], SuffixGroup(rule), word, pos)
           \o PassKeepingContext(rule, ways, word, taken, MatchEndAt(ways, word, pos))
    ELSE <<CharAt(word, pos)>> \o PassKeepingContext(rule, ways, word, taken, pos + 1)

\* C35: apply puts, for each match, the text matched by the prefix, the replacement
\* and the text matched by the suffix, and changes nothing else of the word, also
\* for a rule whose prefix or suffix holds groups in parentheses.
C35_OnlyToReplaceChanges ==
  [][ruleState'.index = ruleState.index + 1
     => \A rule \in {ruleState.rules[ruleState'.index]} :
          \A ways \in {Alternatives(regex(rule), 1, Len(regex(rule)))} :
            \A taken \in {NonOverlappingMatches(ways, ruleState.acc)} :
              ruleState'.acc = PassKeepingContext(rule, ways, ruleState.acc, taken, 0)
     ]_vars

(***************************************************************************)
(* Claims about the edges of the word that the rules see (SpecCycles)      *)
(***************************************************************************)
\* the preprocessor and the postprocessor that translateText applies
AppliedPreprocessor(stepper) ==
  IF stepper.currentLanguageCode \in DOMAIN stepper.rulePreprocessors
    THEN stepper.rulePreprocessors[stepper.currentLanguageCode]
    ELSE <<>>

AppliedPostprocessor(stepper) ==
  IF stepper.currentLanguageCode \in DOMAIN stepper.rulePreprocessors
    THEN stepper.rulePostprocessors[stepper.currentLanguageCode]
    ELSE <<>>

\* C36: when translateText of the orthography stepper has returned for a word, the
\* text it scanned is the padding around the word as the preprocessor turns it, and
\* the string it returned is the phonetic result without the padding as the
\* postprocessor turns it: the edges that the anchors of the rules match are those of
\* the word and of its result.
C36_AnchorsAtWordEdges ==
  OrthTranslated
    => /\ orthStepper.text
            = Padded(process(AppliedPreprocessor(orthStepper), toLowerCase(input)))
       /\ lastOp.word
            = trim(process(AppliedPostprocessor(orthStepper), trim(result(orthStepper))))

(***************************************************************************)
(* Claims about a load that fails (SpecTrie)                               *)
(***************************************************************************)
\* C37: a loadDictionary call of the word stepper that raises leaves the language
\* unregistered, so that a load of a language whose file cannot be read raises
\* whenever it is made, and not only the first time.
C37_FailedLoadLeavesNoTrace ==
  [][\A l \in Languages :
       (lastOp'.op = "wordLoadDictionary" /\ lastOp'.lang = l /\ lastOp' # lastOp)
         => /\ lastOp'.threw => ~hasDictionary(wordStepper', l)
            /\ ~files.dict[l].exists => lastOp'.threw
     ]_vars

(***************************************************************************)
(* Claims about the cursors of the word stepper (Spec)                     *)
(***************************************************************************)
\* the head of the loop of TrieWordStepper.run after the first iteration
AtLoopHead ==
  phase = "word" /\ wordStepper.cursor > 0

====
